---- MODULE Spec2Model ----
\* A model of the compiling backend of the value library (LLVMContext.cpp):
\* the function-emission stack, the constant-promotion stack, the global
\* registry, the defined-function map and the coordinate odometer.
EXTENDS Integers, Sequences, FiniteSets, TLC

\* ------------------------------------------------------------------ bounds
\* deepest nesting of CreateFunction bodies explored
MaxDepth == 2
\* number of backend allocations (globals and function variables) explored
MaxStorage == 4
\* number of constant buffers held by the interpreting backend
NumBuffers == 2
\* number of elements of every constant buffer
BufLen == 2
\* number of entries of the global registry explored
MaxGlobals == 2
\* largest rank of a layout given to For
MaxRank == 3
\* largest active size of a dimension of a layout given to For
MaxDim == 3
\* largest element held by runtime memory (elements are 1..MaxElem)
MaxElem == 2
\* number of value operations (BinaryOperation, CopyData, Call, ...) of a behaviour
MaxOps == 1
\* the value operations of a run that holds calls of intrinsics only
MaxCalls == 2
\* largest pointer level of a type description
MaxPointerLevel == 2

VARIABLES
    functionStack,          \* _functionStack: names of the functions being emitted
    promotedConstantStack,  \* _promotedConstantStack: per scope, the promoted-constant records
    globals,                \* _globals: adjusted name -> {Emittable, layout}
    definedFunctions,       \* _definedFunctions: the declarations that have a callable
    storage,                \* what the emitter has allocated: globals and function variables
    callStack,              \* the CreateFunctionImpl activations whose body is running
    registered,             \* history: the (scope, function, name) of every successful GlobalAllocate
    result,                 \* outcome of the last operation
    forLayout,              \* ForImpl: the active size of the layout being iterated
    forCoordinate,          \* ForImpl: coordinate
    forCalls,               \* ForImpl: the coordinates elementFn has been invoked with
    forPc,                  \* ForImpl: "idle", "loop" (in the do-while) or "done"
    emitted,                \* the instructions the last value operation gave to the emitter
    opCount,                \* the number of value operations performed
    intrinsicEmitter        \* the function emitter the intrinsic table of IntrinsicCall captured

vars == <<functionStack, promotedConstantStack, globals, definedFunctions, storage,
          callStack, registered, result, forLayout, forCoordinate, forCalls, forPc,
          emitted, opCount, intrinsicEmitter>>

ctxVars == <<functionStack, promotedConstantStack, globals, definedFunctions, storage,
             callStack, registered>>

forVars == <<forLayout, forCoordinate, forCalls, forPc>>

opVars == <<emitted, opCount>>

callVars == <<intrinsicEmitter>>

\* ------------------------------------------------------------------ helpers
Last(s) == s[Len(s)]

Front(s) == SubSeq(s, 1, Len(s) - 1)

ReplaceLast(s, e) == [s EXCEPT ![Len(s)] = e]

\* ------------------------------------------------------------------ values
NoValue == [kind |-> "none"]

UndefinedValue == [kind |-> "undefined"]

\* a constant Value: a pointer into one of the interpreting backend's buffers
ConstantValue(p) == [kind |-> "constant", ptr |-> p]

\* a runtime Value: a handle addressing element off of backend storage base
EmittableValue(b, o) == [kind |-> "emittable", base |-> b, off |-> o]

IsConstant(value) == value.kind = "constant"

Buffers == 1..NumBuffers

\* every buffer holds the same contents, so that buffers differ by identity only
BufferData(b) == [i \in 1..BufLen |-> i]

\* address of the first element of buffer b (data.data())
BufferBase(b) == (b - 1) * BufLen + 1

Pointers == {BufferBase(b) + o : b \in Buffers, o \in 0..(BufLen - 1)}

\* the buffer whose address range holds the Value's data pointer
GetConstantData(value) ==
    CHOOSE b \in Buffers : BufferBase(b) <= value.ptr /\ value.ptr < BufferBase(b) + Len(BufferData(b))

\* ------------------------------------------------------------------ names
ModuleName == "m"

\* a parameter type or a return type of a declaration
TypeDescription(type, pointerLevel) == [type |-> type, pointerLevel |-> pointerLevel]

\* the return type of a declaration that returns nothing
Void == TypeDescription("Void", 0)

\* FunctionDeclaration: name, parameter types, return type
Decl(n, p) == [name |-> n, params |-> p, ret |-> Void]

IntrinsicNames == {"abs", "sin", "cos", "exp", "log", "sqrt", "tanh", "pow", "max", "min"}

\* the built-in intrinsic declarations
GetIntrinsics == {Decl(n, <<>>) : n \in IntrinsicNames}

\* the declarations given to CreateFunction
Decls == {Decl("f", <<>>), Decl("f_g", <<"Int32">>), Decl("abs", <<>>)}

GlobalNames == {"w", "g_w"}

Scopes == {"Global", "Function"}

GetGlobalScopedName(name) == ModuleName \o "_" \o name

GetFunctionName == Last(functionStack)

\* a function-scoped name that leaves the function out
GetCurrentFunctionScopedNameUnscoped(name) == GetGlobalScopedName(name)

\* defined only while a function is being emitted
GetCurrentFunctionScopedName(name) == GetGlobalScopedName(GetFunctionName \o "_" \o name)

\* "illegalState" stands for the LogicException of GetCurrentFunctionScopedName
GetScopeAdjustedName(scope, name) ==
    IF scope = "Global"
    THEN [status |-> "ok", name |-> GetGlobalScopedName(name)]
    ELSE IF functionStack = <<>>
         THEN [status |-> "illegalState", name |-> ""]
         ELSE [status |-> "ok", name |-> GetCurrentFunctionScopedName(name)]

\* ------------------------------------------------------------------ state
Running == result.status # "crash"

\* the intrinsic table of IntrinsicCall before its first use
NotCaptured == [name |-> "", depth |-> 0]

Outcome(op, status, arg, value) == [op |-> op, status |-> status, arg |-> arg, value |-> value]

Init ==
    /\ functionStack = <<>>
    /\ promotedConstantStack = << <<>> >>
    /\ globals = [n \in {} |-> NoValue]
    /\ definedFunctions = {}
    /\ storage = <<>>
    /\ callStack = <<>>
    /\ registered = {}
    /\ result = Outcome("LLVMContext", "ok", [none |-> 0], NoValue)
    /\ forLayout = <<>>
    /\ forCoordinate = <<>>
    /\ forCalls = <<>>
    /\ forPc = "idle"
    /\ emitted = <<>>
    /\ opCount = 0
    /\ intrinsicEmitter = NotCaptured

\* ------------------------------------------------------------------ function scopes
\* a constructor whose promotion entry starts with the records of the enclosing scope
FunctionScopeEnterInherits(fnName) ==
    [functionStack |-> Append(functionStack, fnName),
     promotedConstantStack |-> Append(promotedConstantStack, Last(promotedConstantStack))]

\* FunctionScope constructor: one entry on each stack, the promotion entry empty
FunctionScopeEnter(fnName) ==
    [functionStack |-> Append(functionStack, fnName),
     promotedConstantStack |-> Append(promotedConstantStack, <<>>)]

\* a destructor that forgets the promotion stack
FunctionScopeExitKeepsPromoted(promoted) ==
    [functionStack |-> Front(functionStack), promotedConstantStack |-> promoted]

\* FunctionScope destructor, run on every exit of the block that owns the scope;
\* promoted is the promotion stack as the body left it
FunctionScopeExit(promoted) ==
    [functionStack |-> Front(functionStack), promotedConstantStack |-> Front(promoted)]

\* ------------------------------------------------------------------ constant promotion
\* the model explores at most MaxStorage backend allocations
WithinStorage(newStorage) == Len(newStorage) <= MaxStorage

\* a lookup by the buffer's contents instead of its identity
SameBufferByValue(desc, data) == BufferData(desc.data) = BufferData(data)

\* the find_if predicate of HasBeenPromoted: desc.data == &constantData
SameBuffer(desc, data) == desc.data = data

\* std::optional as a sequence of length 0 or 1; the first matching record of the top entry
HasBeenPromoted(value) ==
    IF ~IsConstant(value)
    THEN <<>>
    ELSE LET constantData == GetConstantData(value)
             promotedStack == Last(promotedConstantStack)
             hits == {i \in 1..Len(promotedStack) : SameBuffer(promotedStack[i], constantData)}
         IN IF hits = {}
            THEN <<>>
            ELSE << promotedStack[CHOOSE i \in hits : \A j \in hits : i <= j] >>

\* a reuse that drops the Value's offset within its buffer
RealizeOffsetDropped(value, data) == 0

\* ptrData - data.data()
RealizeOffset(value, data) == value.ptr - BufferBase(data)

\* The set of outcomes of Realize. With a record found it calls GetFunctionEmitter(),
\* which reads the top of _functionStack: on an empty stack that read is undefined,
\* and the build either crashes or goes on with a stale emitter and emits the offset.
Realize(value) ==
    LET desc == HasBeenPromoted(value)
    IN IF desc = <<>>
       THEN {[status |-> "ok", value |-> value]}
       ELSE LET offset == RealizeOffset(value, desc[1].data)
                newValue == EmittableValue(desc[1].realValue, offset)
            IN IF functionStack = <<>>
               THEN {[status |-> "crash", value |-> NoValue], [status |-> "ok", value |-> newValue]}
               ELSE {[status |-> "ok", value |-> newValue]}

\* a first promotion that drops the Value's offset within its buffer
PromoteOffsetDropped(value, data) == 0

\* offset = ptrData - data.data()
PromoteOffset(value, data) == value.ptr - BufferBase(data)

\* a promotion that forgets to record what it materialized
RecordPromotionForgotten(promotedStack, data, llvmValue) == promotedStack

\* _promotedConstantStack.top().push_back({ &constantData, llvmValue })
RecordPromotion(promotedStack, data, llvmValue) ==
    Append(promotedStack, [data |-> data, realValue |-> llvmValue])

\* PromoteConstantData: a module global outside any function; inside one, a global
\* and a function variable the global is copied into
PromoteConstantData(value) ==
    LET constantData == GetConstantData(value)
        offset == PromoteOffset(value, constantData)
        top == Last(promotedConstantStack)
        suffix == "_" \o ToString(Len(top))
        globalName == IF functionStack = <<>>
                      THEN GetGlobalScopedName(suffix)
                      ELSE GetCurrentFunctionScopedName(suffix)
        globalVariable == [kind |-> "global", name |-> globalName, data |-> BufferData(constantData)]
        newStorage == IF functionStack = <<>>
                      THEN Append(storage, globalVariable)
                      ELSE storage \o <<globalVariable,
                                        [kind |-> "variable", name |-> GetFunctionName,
                                         data |-> BufferData(constantData)]>>
        llvmValue == Len(newStorage)
    IN [status |-> "ok",
        value |-> EmittableValue(llvmValue, offset),
        promoted |-> ReplaceLast(promotedConstantStack, RecordPromotion(top, constantData, llvmValue)),
        storage |-> newStorage]

\* The set of outcomes of EnsureEmittable
EnsureEmittable(value) ==
    IF ~IsConstant(value)
    THEN {[status |-> "ok", value |-> value, promoted |-> promotedConstantStack, storage |-> storage]}
    ELSE UNION {IF r.status = "ok" /\ IsConstant(r.value)
                THEN {PromoteConstantData(r.value)}
                ELSE {[status |-> r.status, value |-> r.value,
                       promoted |-> promotedConstantStack, storage |-> storage]}
                : r \in Realize(value)}

ConstantValues == {ConstantValue(p) : p \in Pointers}

\* the Values an operation may be given: undefined, constant views, runtime handles
Values == {UndefinedValue} \cup ConstantValues \cup {EmittableValue(s, 0) : s \in 1..Len(storage)}

\* An operation that needs a materialized address for one of its operands (a call
\* argument, an operand combined with a runtime Value) runs EnsureEmittable on it.
EnsureEmittableStep(value) ==
    /\ Running
    /\ \E o \in EnsureEmittable(value) :
        /\ WithinStorage(o.storage)
        /\ promotedConstantStack' = o.promoted
        /\ storage' = o.storage
        /\ result' = Outcome("EnsureEmittable", o.status, [value |-> value], o.value)
    /\ UNCHANGED <<functionStack, globals, definedFunctions, callStack, registered, forVars, opVars, callVars>>

\* ------------------------------------------------------------------ functions
\* a definition that accepts the intrinsics' declarations
IsIntrinsicNever(decl) == FALSE

\* std::find(intrinsics.begin(), intrinsics.end(), decl) != intrinsics.end()
IsIntrinsic(decl) == decl \in GetIntrinsics

\* the reference the intrinsic table holds once the emitter it referred to is gone
Dangling == [name |-> "dangling", depth |-> 0]

\* ~FunctionScope pops the emitter on top of _functionStack: a reference the
\* intrinsic table took to that emitter dangles from then on
ReleaseEmitter ==
    IF intrinsicEmitter.depth = Len(functionStack) THEN Dangling ELSE intrinsicEmitter

\* a definition that never finds the cached callable
IsCachedNever(decl) == FALSE

\* _definedFunctions.find(decl) != _definedFunctions.end()
IsCached(decl) == decl \in definedFunctions

\* CreateFunctionImpl up to the invocation of the body: the intrinsic check, the
\* cache lookup, then the FunctionScope and the body
CreateFunctionImpl(decl) ==
    /\ Running
    /\ IF IsIntrinsic(decl)
       THEN /\ result' = Outcome("CreateFunction", "InvalidArgument", [decl |-> decl], NoValue)
            /\ UNCHANGED <<ctxVars, forVars, opVars, callVars>>
       ELSE IF IsCached(decl)
       THEN /\ result' = Outcome("CreateFunction", "cached", [decl |-> decl], NoValue)
            /\ UNCHANGED <<ctxVars, forVars, opVars, callVars>>
       ELSE /\ Len(callStack) < MaxDepth
            /\ LET scope == FunctionScopeEnter(decl.name)
               IN /\ functionStack' = scope.functionStack
                  /\ promotedConstantStack' = scope.promotedConstantStack
            /\ callStack' = Append(callStack, decl)
            /\ result' = Outcome("CreateFunction", "body", [decl |-> decl], NoValue)
            /\ UNCHANGED <<globals, definedFunctions, storage, registered, forVars, opVars, callVars>>

\* the body returned (with a Value or without): EndFunction, the scope is released,
\* the callable is stored in the map
CreateFunctionReturn(returnValue) ==
    /\ Running
    /\ callStack # <<>>
    /\ \E o \in IF returnValue = NoValue
                THEN {[status |-> "ok", value |-> NoValue,
                       promoted |-> promotedConstantStack, storage |-> storage]}
                ELSE EnsureEmittable(returnValue) :
        LET scope == FunctionScopeExit(o.promoted)
        IN /\ WithinStorage(o.storage)
           /\ functionStack' = scope.functionStack
           /\ promotedConstantStack' = scope.promotedConstantStack
           /\ storage' = o.storage
           /\ result' = Outcome("CreateFunction", "ok", [decl |-> Last(callStack)], o.value)
    /\ definedFunctions' = definedFunctions \cup {Last(callStack)}
    /\ callStack' = Front(callStack)
    /\ intrinsicEmitter' = ReleaseEmitter
    /\ UNCHANGED <<globals, registered, forVars, opVars>>

\* the body raised an error: the scope is released, the map is left alone
CreateFunctionThrow ==
    /\ Running
    /\ callStack # <<>>
    /\ LET scope == FunctionScopeExit(promotedConstantStack)
       IN /\ functionStack' = scope.functionStack
          /\ promotedConstantStack' = scope.promotedConstantStack
    /\ result' = Outcome("CreateFunction", "exception", [decl |-> Last(callStack)], NoValue)
    /\ callStack' = Front(callStack)
    /\ intrinsicEmitter' = ReleaseEmitter
    /\ UNCHANGED <<globals, definedFunctions, storage, registered, forVars, opVars>>

\* ------------------------------------------------------------------ global registry
\* what GlobalAllocate is given besides the name: concrete data and its layout
\* (active sizes), or only a type and a layout
GlobalInputs == {[init |-> "data", layout |-> <<2>>], [init |-> "type", layout |-> <<1>>]}

\* a registration that never sees a collision
GlobalCollidesNever(adjustedName) == FALSE

\* _globals.find(adjustedName) != _globals.end()
GlobalCollides(adjustedName) == adjustedName \in DOMAIN globals

\* the function a Function-scoped registration belongs to (none at module scope)
RegistrationKey(scope, name) ==
    [scope |-> scope,
     function |-> IF scope = "Function" /\ functionStack # <<>> THEN GetFunctionName ELSE "",
     name |-> name]

\* GlobalAllocateImpl, both overloads: init tells whether the global is created
\* from concrete data or from a type only
GlobalAllocateImpl(scope, name, init, layout) ==
    /\ Running
    /\ LET adjusted == GetScopeAdjustedName(scope, name)
           arg == [scope |-> scope, name |-> name, init |-> init, layout |-> layout]
       IN IF adjusted.status # "ok"
          THEN /\ result' = Outcome("GlobalAllocate", adjusted.status, arg, NoValue)
               /\ UNCHANGED <<globals, storage, registered>>
          ELSE IF GlobalCollides(adjusted.name)
          THEN /\ result' = Outcome("GlobalAllocate", "InvalidArgument", arg, NoValue)
               /\ UNCHANGED <<globals, storage, registered>>
          ELSE LET global == [kind |-> "global", name |-> adjusted.name,
                              data |-> IF init = "data" THEN [i \in 1..layout[1] |-> i] ELSE <<>>]
                   emittable == EmittableValue(Len(storage) + 1, 0)
               IN /\ Cardinality(DOMAIN globals) < MaxGlobals
                  /\ WithinStorage(Append(storage, global))
                  /\ storage' = Append(storage, global)
                  /\ globals' = [n \in DOMAIN globals \cup {adjusted.name} |->
                                    IF n = adjusted.name
                                    THEN [emittable |-> emittable, layout |-> layout]
                                    ELSE globals[n]]
                  /\ registered' = registered \cup {RegistrationKey(scope, name)}
                  /\ result' = Outcome("GlobalAllocate", "ok", arg, emittable)
    /\ UNCHANGED <<functionStack, promotedConstantStack, definedFunctions, callStack, forVars, opVars, callVars>>

\* GetGlobalValue: the registered pair, or std::nullopt ("not found")
GetGlobalValue(scope, name) ==
    /\ Running
    /\ LET adjusted == GetScopeAdjustedName(scope, name)
           arg == [scope |-> scope, name |-> name]
       IN IF adjusted.status # "ok"
          THEN result' = Outcome("GetGlobalValue", adjusted.status, arg, NoValue)
          ELSE IF adjusted.name \in DOMAIN globals
          THEN result' = Outcome("GetGlobalValue", "ok", arg, globals[adjusted.name])
          ELSE result' = Outcome("GetGlobalValue", "not found", arg, NoValue)
    /\ UNCHANGED <<ctxVars, forVars, opVars, callVars>>

\* ------------------------------------------------------------------ coordinate iteration
RECURSIVE IncrementMemoryCoordinateImpl(_, _, _)
\* dimension is the 0-based index of the source; coordinate[dimension + 1] is its entry
IncrementMemoryCoordinateImpl(dimension, coordinate, maxCoordinate) ==
    IF dimension < 0
    THEN [more |-> FALSE, coordinate |-> coordinate]
    ELSE IF coordinate[dimension + 1] + 1 >= maxCoordinate[dimension + 1]
         THEN IncrementMemoryCoordinateImpl(dimension - 1,
                                            [coordinate EXCEPT ![dimension + 1] = 0],
                                            maxCoordinate)
         ELSE [more |-> TRUE,
               coordinate |-> [coordinate EXCEPT ![dimension + 1] = coordinate[dimension + 1] + 1]]

RECURSIVE IncrementFirstFastestImpl(_, _, _)
IncrementFirstFastestImpl(dimension, coordinate, maxCoordinate) ==
    IF dimension > Len(maxCoordinate)
    THEN [more |-> FALSE, coordinate |-> coordinate]
    ELSE IF coordinate[dimension] + 1 >= maxCoordinate[dimension]
         THEN IncrementFirstFastestImpl(dimension + 1,
                                        [coordinate EXCEPT ![dimension] = 0],
                                        maxCoordinate)
         ELSE [more |-> TRUE,
               coordinate |-> [coordinate EXCEPT ![dimension] = coordinate[dimension] + 1]]

\* an odometer that starts carrying at the first dimension
IncrementFirstFastest(coordinate, maxCoordinate) ==
    IncrementFirstFastestImpl(1, coordinate, maxCoordinate)

IncrementMemoryCoordinate(coordinate, maxCoordinate) ==
    IncrementMemoryCoordinateImpl(Len(maxCoordinate) - 1, coordinate, maxCoordinate)

\* the layout service, for a layout in canonical dimension order
GetLogicalCoordinates(layout, coordinate) == coordinate

RECURSIVE ZeroCoordinate(_)
\* decltype(maxCoordinate) coordinate(maxCoordinate.size()): n value-initialized entries
ZeroCoordinate(n) == IF n = 0 THEN <<>> ELSE Append(ZeroCoordinate(n - 1), 0)

\* the active sizes of the layouts given to For
ForLayouts == UNION {[1..r -> 0..MaxDim] : r \in 0..MaxRank}

\* ForImpl up to the do-while: maxCoordinate and the zero coordinate
ForImpl(layout) ==
    /\ Running
    /\ forPc # "loop"
    /\ forLayout' = layout
    /\ forCoordinate' = ZeroCoordinate(Len(layout))
    /\ forCalls' = <<>>
    /\ forPc' = "loop"
    /\ result' = Outcome("For", "loop", [layout |-> layout], NoValue)
    /\ UNCHANGED <<ctxVars, opVars, callVars>>

\* one round of the do-while of ForImpl: elementFn (which here records the
\* coordinates it is given) is invoked, then the coordinate is incremented
ForImplIteration ==
    /\ Running
    /\ forPc = "loop"
    /\ forCalls' = Append(forCalls, GetLogicalCoordinates(forLayout, forCoordinate))
    /\ LET next == IncrementMemoryCoordinate(forCoordinate, forLayout)
       IN /\ forCoordinate' = next.coordinate
          /\ forPc' = IF next.more THEN "loop" ELSE "done"
          /\ result' = Outcome("For", IF next.more THEN "loop" ELSE "ok",
                               [layout |-> forLayout], NoValue)
    /\ UNCHANGED <<ctxVars, forLayout, opVars, callVars>>

\* ------------------------------------------------------------------ layouts
\* MemoryLayout: per dimension the active size, the allocated extent and the
\* offset of the active region within the extent (canonical dimension order)
MemoryLayout(size, extent, offset) == [size |-> size, extent |-> extent, offset |-> offset]

ScalarLayout == MemoryLayout(<<1>>, <<1>>, <<0>>)

\* the layout of a Value that has none
NoLayout == MemoryLayout(<<>>, <<>>, <<>>)

\* length of the vectors the operations are given
VectorLength == 2

VectorLayout == MemoryLayout(<<VectorLength>>, <<VectorLength>>, <<0>>)

\* one active element behind one element of padding
PaddedLayout == MemoryLayout(<<1>>, <<2>>, <<1>>)

\* one active element in front of one element of padding
TrailingPaddedLayout == MemoryLayout(<<1>>, <<2>>, <<0>>)

GetActiveSize(layout) == layout.size

RECURSIVE GetMemorySizeFrom(_, _)
GetMemorySizeFrom(layout, dimension) ==
    IF dimension > Len(layout.extent)
    THEN 1
    ELSE layout.extent[dimension] * GetMemorySizeFrom(layout, dimension + 1)

\* number of elements of the allocation, padding included
GetMemorySize(layout) == GetMemorySizeFrom(layout, 1)

RECURSIVE GetEntryOffsetUpTo(_, _, _)
GetEntryOffsetUpTo(layout, coordinate, dimension) ==
    IF dimension = 0
    THEN 0
    ELSE GetEntryOffsetUpTo(layout, coordinate, dimension - 1) * layout.extent[dimension]
         + coordinate[dimension] + layout.offset[dimension]

\* physical offset of the element at a coordinate of the active region
GetEntryOffset(layout, coordinate) == GetEntryOffsetUpTo(layout, coordinate, Len(coordinate))

GetLogicalEntryOffset(layout, logicalCoordinates) == GetEntryOffset(layout, logicalCoordinates)

IsContiguous(layout) == layout.size = layout.extent

RECURSIVE LoopCoordinatesFrom(_, _)
LoopCoordinatesFrom(coordinate, maxCoordinate) ==
    LET next == IncrementMemoryCoordinate(coordinate, maxCoordinate)
    IN IF next.more
       THEN <<coordinate>> \o LoopCoordinatesFrom(next.coordinate, maxCoordinate)
       ELSE <<coordinate>>

\* the coordinates visited by
\*   do { ... } while (IncrementMemoryCoordinate(coordinate, maxCoordinate));
\* started at the zero coordinate
LoopCoordinates(maxCoordinate) ==
    LoopCoordinatesFrom(ZeroCoordinate(Len(maxCoordinate)), maxCoordinate)

\* ------------------------------------------------------------------ typed values
\* a Value: the underlying data (undefined, constant pointer or Emittable), the
\* base type, the pointer level and the layout; mem is what the data addresses,
\* mem[o + 1] being the element at physical offset o
TypedValue(data, type, pointerLevel, layout, mem) ==
    [data |-> data, type |-> type, pointerLevel |-> pointerLevel, layout |-> layout, mem |-> mem]

UndefinedTyped == TypedValue(UndefinedValue, "Undefined", 0, NoLayout, <<>>)

IsDefined(value) == value.data.kind # "undefined"

GetBaseType(value) == value.type

PointerLevel(value) == value.pointerLevel

IsFloatingPoint(value) == value.type \in {"Float", "Double"}

\* the element type of a constant buffer
BufferType(b) == IF b % 2 = 1 THEN "Int32" ELSE "Float"

\* the elements from a pointer to the end of its buffer
ConstantMem(p) ==
    LET b == GetConstantData(ConstantValue(p))
        o == p - BufferBase(b)
    IN [i \in 1..(BufLen - o) |-> BufferData(b)[o + i]]

\* a constant Value over a buffer, as StoreConstantData and Offset build it
TypedConstant(p, layout) ==
    TypedValue(ConstantValue(p), BufferType(GetConstantData(ConstantValue(p))), 1, layout,
               ConstantMem(p))

\* the constant Values given to the operations: a vector over each buffer and
\* a scalar at its last element
ConstantOperands ==
    {TypedConstant(BufferBase(b), VectorLayout) : b \in Buffers}
    \cup {TypedConstant(BufferBase(b) + BufLen - 1, ScalarLayout) : b \in Buffers}

\* handles of runtime Values that are not module storage: the arguments of the
\* function being emitted
Locals == {-1, -2}

\* a runtime Value whose memory holds elem everywhere
RuntimeOperand(handle, type, layout, elem) ==
    TypedValue(EmittableValue(handle, 0), type, 1, layout,
               [i \in 1..GetMemorySize(layout) |-> elem])

\* the instructions left out of emitted are loads, literals and pointer offsets
Instruction(instr, op, offset) == [instr |-> instr, op |-> op, offset |-> offset]

\* outcome of a value operation: what it returns or throws, and the context
\* and instructions it leaves behind
OpOutcome(status, value, promoted, newStorage, instructions) ==
    [status |-> status, value |-> value, promoted |-> promoted, storage |-> newStorage,
     emitted |-> instructions]

Unchanged(status, value) == OpOutcome(status, value, promotedConstantStack, storage, <<>>)

\* _functionStack.top() of GetFunctionEmitter: undefined on an empty stack, where
\* the build either crashes or goes on with whatever the read gave
GetFunctionEmitter == IF functionStack = <<>> THEN {"crash", "ok"} ELSE {"ok"}

\* AllocateImpl: a zero-filled function variable
Allocate(type, layout) ==
    {IF e = "crash"
     THEN Unchanged("crash", NoValue)
     ELSE LET zeros == [i \in 1..GetMemorySize(layout) |-> 0]
              variable == [kind |-> "variable",
                           name |-> IF functionStack = <<>> THEN "" ELSE GetFunctionName,
                           data |-> zeros]
          IN OpOutcome("ok",
                       TypedValue(EmittableValue(Len(storage) + 1, 0), type, 1, layout, zeros),
                       promotedConstantStack, Append(storage, variable),
                       <<Instruction("MemorySet", "", 0)>>) : e \in GetFunctionEmitter}

\* EnsureEmittable of a typed Value: the data changes, type and layout stay
EnsureEmittableTyped(value) ==
    {OpOutcome(o.status, IF o.status = "ok" THEN [value EXCEPT !.data = o.value] ELSE NoValue,
               o.promoted, o.storage, <<>>) : o \in EnsureEmittable(value.data)}

\* ------------------------------------------------------------------ BinaryOperation
BinaryOperations == {"add", "subtract", "multiply", "divide", "modulus"}

\* the physical offsets of the elements the coordinate loop visits
LoopOffsets(layout) ==
    LET coordinates == LoopCoordinates(GetActiveSize(layout))
    IN [i \in 1..Len(coordinates) |-> GetEntryOffset(layout, coordinates[i])]

\* native arithmetic of the host type: signed integers, or floating point where
\* a quotient is kept as the pair of its operands
HostArithmetic(op, type, x, y) ==
    CASE op = "add" -> x + y
      [] op = "subtract" -> x - y
      [] op = "multiply" -> x * y
      [] op = "divide" -> IF type \in {"Float", "Double"}
                          THEN [numerator |-> x, denominator |-> y]
                          ELSE x \div y
      [] op = "modulus" -> x % y

\* the interpreting backend: the operation applied to every element of the
\* active region of the destination
ComputeBinaryOperation(op, destination, source) ==
    IF destination.type # source.type
    THEN [status |-> "TypeMismatch", value |-> NoValue]
    ELSE IF destination.layout # source.layout
    THEN [status |-> "SizeMismatch", value |-> NoValue]
    ELSE IF op = "modulus" /\ destination.type \in {"Float", "Double"}
    THEN [status |-> "InvalidArgument", value |-> NoValue]
    ELSE LET offsets == LoopOffsets(destination.layout)
             active == {offsets[i] + 1 : i \in 1..Len(offsets)}
         IN [status |-> "ok",
             value |-> [destination EXCEPT !.mem =
                           [i \in 1..Len(destination.mem) |->
                               IF i \in active
                               THEN HostArithmetic(op, destination.type,
                                                   destination.mem[i], source.mem[i])
                               ELSE destination.mem[i]]]]

\* an operand test that never folds
BothConstantNever(destination, source) == FALSE

BothConstant(destination, source) == IsConstant(source.data) /\ IsConstant(destination.data)

\* a compatibility test that accepts every pair
TypeCompatibleAlways(value1, value2) == TRUE

TypeCompatible(value1, value2) == GetBaseType(value1) = GetBaseType(value2)

\* a selection that lowers modulus for every type
TypedOperatorModuloAlways(op, isFp) ==
    [status |-> "ok", op |-> IF op = "modulus" THEN "moduloSigned" ELSE op]

\* the switch over op: the TypedOperator to emit, or the exception thrown
TypedOperator(op, isFp) ==
    CASE op = "add" -> [status |-> "ok", op |-> IF isFp THEN "addFloat" ELSE "add"]
      [] op = "subtract" -> [status |-> "ok", op |-> IF isFp THEN "subtractFloat" ELSE "subtract"]
      [] op = "multiply" -> [status |-> "ok", op |-> IF isFp THEN "multiplyFloat" ELSE "multiply"]
      [] op = "divide" -> [status |-> "ok", op |-> IF isFp THEN "divideFloat" ELSE "divideSigned"]
      [] op = "modulus" -> IF isFp
                           THEN [status |-> "InvalidArgument", op |-> ""]
                           ELSE [status |-> "ok", op |-> "moduloSigned"]
      [] OTHER -> [status |-> "IllegalState", op |-> ""]

\* the do-while of the visitor: per coordinate one Operator and one SetValueAt
EmitBinaryLoop(typedOp, layout) ==
    LET offsets == LoopOffsets(layout)
        both == [i \in 1..(2 * Len(offsets)) |->
                    IF i % 2 = 1
                    THEN Instruction("Operator", typedOp, offsets[(i + 1) \div 2])
                    ELSE Instruction("SetValueAt", "", offsets[i \div 2])]
    IN both

\* the visitor over the source data, entered with the destination made emittable;
\* returned is the handler's own destination, not the one made emittable
BinaryOperationVisit(op, destination, ensured, source) ==
    IF ensured.status # "ok"
    THEN ensured
    ELSE IF IsConstant(source.data) /\ source.type = "Boolean"
    THEN [ensured EXCEPT !.status = "NotImplemented", !.value = NoValue]
    ELSE LET typedOp == TypedOperator(op, IsFloatingPoint(ensured.value))
         IN IF typedOp.status # "ok"
            THEN [ensured EXCEPT !.status = typedOp.status, !.value = NoValue]
            ELSE [ensured EXCEPT !.value = destination,
                                 !.emitted = EmitBinaryLoop(typedOp.op, ensured.value.layout)]

\* BinaryOperationImpl from the type check on, for a defined destination
BinaryOperationEmit(op, allocated, source) ==
    LET destination == allocated.value
    IN IF allocated.status # "ok"
       THEN {allocated}
       ELSE IF ~TypeCompatible(destination, source)
       THEN {[allocated EXCEPT !.status = "TypeMismatch", !.value = NoValue]}
       ELSE IF destination.layout # source.layout
       THEN {[allocated EXCEPT !.status = "SizeMismatch", !.value = NoValue]}
       ELSE UNION {IF e = "crash"
                   THEN {[allocated EXCEPT !.status = "crash", !.value = NoValue]}
                   ELSE {BinaryOperationVisit(op, destination,
                                              [ensured EXCEPT !.emitted = allocated.emitted,
                                                              !.storage =
                                                                  IF IsConstant(destination.data)
                                                                  THEN ensured.storage
                                                                  ELSE allocated.storage],
                                              source)
                         : ensured \in EnsureEmittableTyped(destination)}
                   : e \in GetFunctionEmitter}

\* the set of outcomes of BinaryOperationImpl
BinaryOperation(op, destination, source) ==
    IF ~IsDefined(source)
    THEN {Unchanged("InvalidArgument", NoValue)}
    ELSE IF IsDefined(destination) /\ BothConstant(destination, source)
    THEN LET folded == ComputeBinaryOperation(op, destination, source)
         IN {Unchanged(folded.status, folded.value)}
    ELSE UNION {BinaryOperationEmit(op, allocated, source)
                : allocated \in IF IsDefined(destination)
                                THEN {Unchanged("ok", destination)}
                                ELSE Allocate(source.type, source.layout)}

\* a value operation takes the context and the instructions of one of its outcomes
TakeOutcome(name, arg, o) ==
    /\ opCount < MaxOps
    /\ opCount' = opCount + 1
    /\ WithinStorage(o.storage)
    /\ promotedConstantStack' = o.promoted
    /\ storage' = o.storage
    /\ emitted' = o.emitted
    /\ result' = Outcome(name, o.status, arg, o.value)
    /\ UNCHANGED <<functionStack, globals, definedFunctions, callStack, registered, forVars,
                   callVars>>

\* the runtime operands of BinaryOperation: the arguments of the function, an
\* Int32 vector, scalar views of it, a Float vector and a Double vector
BinaryRuntimeOperands ==
    {RuntimeOperand(-1, "Int32", VectorLayout, 1), RuntimeOperand(-1, "Int32", ScalarLayout, 1),
     RuntimeOperand(-2, "Float", VectorLayout, 1), RuntimeOperand(-2, "Double", VectorLayout, 1)}

BinaryOperands == {UndefinedTyped} \cup ConstantOperands \cup BinaryRuntimeOperands

\* every operator on constant operands; where an instruction is emitted, add
\* stands for the operators that have a floating-point variant
BinaryInputs ==
    {i \in [op : BinaryOperations, destination : BinaryOperands, source : BinaryOperands] :
        \/ BothConstant(i.destination, i.source)
        \/ i.op \in {"add", "modulus"}}

BinaryOperationImpl(op, destination, source) ==
    /\ Running
    /\ \E o \in BinaryOperation(op, destination, source) :
          TakeOutcome("BinaryOperation", [op |-> op, destination |-> destination,
                                          source |-> source], o)

\* ------------------------------------------------------------------ LogicalOperation
LogicalOperations ==
    {"equality", "inequality", "greaterthan", "greaterthanorequal", "lessthan",
     "lessthanorequal"}

\* what the comparison instruction (or the host comparison) computes
Comparison(op, x, y) ==
    CASE op = "equality" -> x = y
      [] op = "inequality" -> x # y
      [] op = "greaterthan" -> x > y
      [] op = "greaterthanorequal" -> x >= y
      [] op = "lessthan" -> x < y
      [] op = "lessthanorequal" -> x <= y

\* the TypedComparison chosen by the switch over op
TypedComparison(op, isFp) ==
    CASE op = "equality" -> IF isFp THEN "equalsFloat" ELSE "equals"
      [] op = "inequality" -> IF isFp THEN "notEqualsFloat" ELSE "notEquals"
      [] op = "greaterthan" -> IF isFp THEN "greaterThanFloat" ELSE "greaterThan"
      [] op = "greaterthanorequal" ->
            IF isFp THEN "greaterThanOrEqualsFloat" ELSE "greaterThanOrEquals"
      [] op = "lessthan" -> IF isFp THEN "lessThanFloat" ELSE "lessThan"
      [] op = "lessthanorequal" -> IF isFp THEN "lessThanOrEqualsFloat" ELSE "lessThanOrEquals"

\* an accumulation that keeps the last comparison only
LogicalAndKeepsLast(accumulated, compared) == compared

\* fn.LogicalAnd(result, comparison)
LogicalAnd(accumulated, compared) == accumulated /\ compared

RECURSIVE LogicalLoopFrom(_, _, _, _, _)
\* the rounds of the do-while from the i-th on: result = LogicalAnd(result, Comparison(...))
LogicalLoopFrom(op, source1, source2, coordinates, i) ==
    IF i = 0
    THEN TRUE
    ELSE LET logicalCoordinates == GetLogicalCoordinates(source1.layout, coordinates[i])
             source1Offset == GetLogicalEntryOffset(source1.layout, logicalCoordinates)
             source2Offset == GetLogicalEntryOffset(source2.layout, logicalCoordinates)
         IN LogicalAnd(LogicalLoopFrom(op, source1, source2, coordinates, i - 1),
                       Comparison(op, source1.mem[source1Offset + 1],
                                  source2.mem[source2Offset + 1]))

\* the value of result after the do-while, which starts from fn.TrueBit()
LogicalLoop(op, source1, source2) ==
    LET coordinates == LoopCoordinates(GetActiveSize(source1.layout))
    IN LogicalLoopFrom(op, source1, source2, coordinates, Len(coordinates))

\* per round one Comparison and one LogicalAnd
EmitLogicalLoop(comparisonOp, layout) ==
    LET offsets == [i \in 1..Len(LoopCoordinates(GetActiveSize(layout))) |->
                       GetLogicalEntryOffset(layout,
                                             LoopCoordinates(GetActiveSize(layout))[i])]
    IN [i \in 1..(2 * Len(offsets)) |->
           IF i % 2 = 1
           THEN Instruction("Comparison", comparisonOp, offsets[(i + 1) \div 2])
           ELSE Instruction("LogicalAnd", "", offsets[i \div 2])]

\* data of a constant the interpreting backend made, in none of the caller's buffers
ComputedData == [kind |-> "constant", ptr |-> 0]

\* the interpreting backend: a constant Boolean scalar, true iff the relation
\* holds at every coordinate
ComputeLogicalOperation(op, source1, source2) ==
    [status |-> "ok",
     value |-> TypedValue(ComputedData, "Boolean", 1, ScalarLayout,
                          <<LogicalLoop(op, source1, source2)>>)]

\* data of an instruction's value, which lives in no storage
RegisterData == EmittableValue(0, 0)

\* { Emittable{ result }, ScalarLayout }; bit is what result holds when it runs
LogicalResult(bit) == TypedValue(RegisterData, "Boolean", 0, ScalarLayout, <<bit>>)

\* the set of outcomes of LogicalOperationImpl
LogicalOperation(op, source1, source2) ==
    IF source1.layout # source2.layout
    THEN {Unchanged("SizeMismatch", NoValue)}
    ELSE IF IsConstant(source1.data) /\ IsConstant(source2.data)
    THEN LET folded == ComputeLogicalOperation(op, source1, source2)
         IN {Unchanged(folded.status, folded.value)}
    ELSE IF ~IsDefined(source1)
    THEN {Unchanged("IllegalState", NoValue)}
    ELSE IF ~IsConstant(source1.data) /\ ~IsDefined(source2)
    THEN {Unchanged("IllegalState", NoValue)}
    ELSE {IF e = "crash"
          THEN Unchanged("crash", NoValue)
          ELSE IF ~IsDefined(source2)
               THEN Unchanged("BadVariantAccess", NoValue)
               ELSE OpOutcome("ok", LogicalResult(LogicalLoop(op, source1, source2)),
                              promotedConstantStack, storage,
                              EmitLogicalLoop(TypedComparison(op, IsFloatingPoint(source1)),
                                              source1.layout))
          : e \in GetFunctionEmitter}

\* the memories of a runtime Value of a layout
Memories(layout) == [1..GetMemorySize(layout) -> 1..MaxElem]

\* the first operands: constants, and an Int32 argument viewed through each layout
LogicalOperands1 ==
    {UndefinedTyped} \cup ConstantOperands
    \cup UNION {{TypedValue(EmittableValue(-1, 0), "Int32", 1, layout, mem) :
                    mem \in Memories(layout)} :
                 layout \in {ScalarLayout, VectorLayout, PaddedLayout}}

\* the second operands: as the first, from the other argument, the padding of
\* the padded view holding 1
LogicalOperands2 ==
    {UndefinedTyped} \cup ConstantOperands
    \cup UNION {{TypedValue(EmittableValue(-2, 0), "Int32", 1, layout, mem) :
                    mem \in Memories(layout)} :
                 layout \in {ScalarLayout, VectorLayout}}
    \cup {TypedValue(EmittableValue(-2, 0), "Int32", 1, PaddedLayout, <<1>> \o mem) :
            mem \in Memories(ScalarLayout)}

\* every relation on operands of one layout; equality on operands of two layouts
LogicalInputs ==
    {i \in [op : LogicalOperations, source1 : LogicalOperands1, source2 : LogicalOperands2] :
        i.source1.layout = i.source2.layout \/ i.op = "equality"}

LogicalOperationImpl(op, source1, source2) ==
    /\ Running
    /\ \E o \in LogicalOperation(op, source1, source2) :
          TakeOutcome("LogicalOperation", [op |-> op, source1 |-> source1,
                                           source2 |-> source2], o)

\* ------------------------------------------------------------------ CopyData, MoveData
\* mem with the elements at the given offsets taken from another memory
CopyElements(mem, from, offsets) ==
    LET copied == {offsets[i] + 1 : i \in 1..Len(offsets)}
    IN [i \in 1..Len(mem) |-> IF i \in copied THEN from[i] ELSE mem[i]]

\* the interpreting backend: the active region of the source copied into the
\* destination, for operands of one type and one layout
ComputeCopyData(source, destination) ==
    IF destination.type # source.type
    THEN [status |-> "TypeMismatch", destination |-> destination]
    ELSE IF destination.layout # source.layout
    THEN [status |-> "SizeMismatch", destination |-> destination]
    ELSE [status |-> "ok",
          destination |-> [destination EXCEPT !.mem =
                              CopyElements(destination.mem, source.mem,
                                           LoopOffsets(source.layout))]]

\* the test of CopyDataImpl before anything is emitted
CopyTypeMismatch(source, destination) ==
    /\ ~TypeCompatible(destination, source)
    /\ \/ PointerLevel(destination) = PointerLevel(source)
       \/ PointerLevel(destination) = 1 + PointerLevel(source)

\* a handle comparison that takes every pair for one LLVM value
SameLLVMValueAlways(source, destination) == TRUE

\* srcValue == destValue
SameLLVMValue(source, destination) == source.data = destination.data

\* one literal store, or one load and store, per round of the do-while
EmitCopyLoop(from, layout) ==
    LET offsets == LoopOffsets(layout)
    IN [i \in 1..Len(offsets) |-> Instruction("Store", from, offsets[i])]

\* an outcome of CopyDataImpl: the destination as the emitted code leaves it; a
\* stored pointer is shown by the handle it points to
CopyOutcome(status, destination, instructions) ==
    [status |-> status, destination |-> destination, emitted |-> instructions]

CopyData(source, destination) ==
    IF IsConstant(destination.data)
    THEN IF IsConstant(source.data)
         THEN LET copied == ComputeCopyData(source, destination)
              IN CopyOutcome(copied.status, copied.destination, <<>>)
         ELSE CopyOutcome("IllegalState", destination, <<>>)
    ELSE IF CopyTypeMismatch(source, destination)
    THEN CopyOutcome("TypeMismatch", destination, <<>>)
    ELSE IF ~IsDefined(destination)
    THEN CopyOutcome("BadVariantAccess", destination, <<>>)
    ELSE IF IsConstant(source.data)
    THEN CopyOutcome("ok",
                     [destination EXCEPT !.mem = CopyElements(destination.mem, source.mem,
                                                              LoopOffsets(source.layout))],
                     EmitCopyLoop("literal", source.layout))
    ELSE IF ~IsDefined(source)
    THEN CopyOutcome("BadVariantAccess", destination, <<>>)
    ELSE IF SameLLVMValue(source, destination)
    THEN CopyOutcome("ok", destination, <<>>)
    ELSE IF IsContiguous(source.layout)
    THEN IF PointerLevel(destination) = PointerLevel(source)
         THEN CopyOutcome("ok", [destination EXCEPT !.mem = source.mem],
                          <<Instruction("MemoryCopy", "", 0)>>)
         ELSE CopyOutcome("ok", [destination EXCEPT !.mem[1] = source.data.base],
                          <<Instruction("Store", "pointer", 0)>>)
    ELSE CopyOutcome("ok",
                     [destination EXCEPT !.mem = CopyElements(destination.mem, source.mem,
                                                              LoopOffsets(source.layout))],
                     EmitCopyLoop("load", source.layout))

\* Value::Reset
Reset(value) == UndefinedTyped

\* the caller's two Values after a copy or a move; aliased says that source and
\* destination are one Value object
AfterCopy(source, copied, aliased, move) ==
    IF move /\ copied.status = "ok"
    THEN [source |-> Reset(source),
          destination |-> IF aliased THEN Reset(source) ELSE copied.destination]
    ELSE [source |-> IF aliased THEN copied.destination ELSE source,
          destination |-> copied.destination]

CopyStep(name, source, destination, aliased, move) ==
    /\ aliased => source = destination
    /\ LET copied == CopyData(source, destination)
       IN TakeOutcome(name, [source |-> source, destination |-> destination, aliased |-> aliased],
                      OpOutcome(copied.status, AfterCopy(source, copied, aliased, move),
                                promotedConstantStack, storage, copied.emitted))

CopyDataImpl(source, destination, aliased) ==
    /\ Running
    /\ CopyStep("CopyData", source, destination, aliased, FALSE)

\* CopyDataImpl(source, destination), then source.Reset()
MoveDataImpl(source, destination, aliased) ==
    /\ Running
    /\ CopyStep("MoveData", source, destination, aliased, TRUE)

RuntimeValue(handle, type, pointerLevel, layout, mem) ==
    TypedValue(EmittableValue(handle, 0), type, pointerLevel, layout, mem)

\* the sources: an Int32 argument seen as a vector and through the padded layout,
\* a Float argument at each pointer level, constants, and no Value
CopySources ==
    {UndefinedTyped} \cup ConstantOperands
    \cup UNION {{RuntimeValue(-1, "Int32", 1, layout, mem) : mem \in Memories(layout)} :
                 layout \in {VectorLayout, PaddedLayout}}
    \cup {RuntimeValue(-1, "Float", 0, ScalarLayout, <<1>>),
          RuntimeValue(-1, "Float", 1, VectorLayout, <<1, 1>>),
          RuntimeValue(-1, "Float", 2, VectorLayout, <<1, 1>>)}

\* the destinations: the other argument as an Int32 vector, padded vector (the
\* padding in front or behind) or pointer to a vector, constants, and no Value
CopyDestinations ==
    {UndefinedTyped} \cup ConstantOperands
    \cup {RuntimeValue(-2, "Int32", 1, VectorLayout, <<1, 1>>),
          RuntimeValue(-2, "Int32", 1, PaddedLayout, <<1, 1>>),
          RuntimeValue(-2, "Int32", 1, TrailingPaddedLayout, <<0, 0>>),
          RuntimeValue(-2, "Int32", 2, VectorLayout, <<1, 1>>)}

\* two Values, a Value and a copy of it (which holds the same handle), or one
\* Value given twice
CopyInputs ==
    {[source |-> s, destination |-> d, aliased |-> FALSE] :
        s \in CopySources, d \in CopyDestinations}
    \cup {[source |-> s, destination |-> s, aliased |-> a] : s \in CopySources, a \in BOOLEAN}

\* ------------------------------------------------------------------ Call
\* a Value whose layout has no element
IsEmpty(value) == \E d \in DOMAIN value.layout.size : value.layout.size[d] = 0

IsConstrained(value) == value.layout # NoLayout

\* the dispatch tiers of CallImpl with the external tier tried first
SelectTierExternalFirst(func) == "external"

\* the dispatch of CallImpl: the intrinsics, then the defined-function map, then
\* the external call
SelectTier(func) ==
    IF IsIntrinsic(func)
    THEN "intrinsic"
    ELSE IF IsCached(func)
    THEN "defined"
    ELSE "external"

\* an outcome with more instructions
Emit(o, instructions) == [o EXCEPT !.emitted = o.emitted \o instructions]

\* an outcome that is an exception or a crash
Fail(o, status) == [o EXCEPT !.status = status, !.value = NoValue]

\* value::Allocate after the operation has changed the context to that of before
AllocateAfter(before, type, layout) ==
    {IF e = "crash"
     THEN Fail(before, "crash")
     ELSE LET zeros == [i \in 1..GetMemorySize(layout) |-> 0]
              variable == [kind |-> "variable",
                           name |-> IF functionStack = <<>> THEN "" ELSE GetFunctionName,
                           data |-> zeros]
          IN [Emit(before, <<Instruction("MemorySet", "", 0)>>)
                 EXCEPT !.value = TypedValue(EmittableValue(Len(before.storage) + 1, 0),
                                             type, 1, layout, zeros),
                        !.storage = Append(before.storage, variable)]
     : e \in GetFunctionEmitter}

\* EnsureEmittable of every argument in turn, up to and including the argument at
\* upTo; the argument lists hold one constant Value at most, so that there is
\* one promotion at most
EnsureEmittableArgs(args, upTo) ==
    LET constants == {i \in 1..upTo : IsConstant(args[i].data)}
    IN IF constants = {}
       THEN {Unchanged("ok", args)}
       ELSE LET i == CHOOSE c \in constants : TRUE
            IN {IF o.status = "ok"
                THEN [o EXCEPT !.value = [args EXCEPT ![i] = o.value]]
                ELSE o : o \in EnsureEmittableTyped(args[i])}

\* the build crashed in the read of the empty stack, no table was built
NoEmitter == [name |-> "crash", depth |-> 0]

\* _functionStack.top(): the emitter of the function being emitted
TopEmitter == [name |-> GetFunctionName, depth |-> Len(functionStack)]

\* The function-local static table of IntrinsicCall is built by the first call,
\* each entry holding a reference to the GetFunctionEmitter() of that moment; on
\* an empty stack that read is undefined and the build crashes or goes on.
CaptureEmitter ==
    IF intrinsicEmitter # NotCaptured
    THEN {intrinsicEmitter}
    ELSE IF functionStack = <<>>
    THEN {NoEmitter, Dangling}
    ELSE {TopEmitter}

\* an instruction given to the captured emitter
UseEmitter(captured) == IF captured = Dangling THEN {"crash", "ok"} ELSE {"ok"}

\* the math runtime function an intrinsic calls
RuntimeFunction(name, x) == CASE name = "abs" -> IF x < 0 THEN -x ELSE x

\* the do-while of SimpleNumericalFunctionIntrinsic
EmitIntrinsicLoop(name, layout) ==
    LET offsets == LoopOffsets(layout)
    IN [i \in 1..(2 * Len(offsets)) |->
           IF i % 2 = 1
           THEN Instruction("Call", name, offsets[(i + 1) \div 2])
           ELSE Instruction("SetValueAt", "", offsets[i \div 2])]

\* the lambda SimpleNumericalFunctionIntrinsic returns; before.value holds args
SimpleNumericalFunctionIntrinsic(name, captured, before) ==
    LET args == before.value
        value == args[1]
    IN IF Len(args) # 1
       THEN {Fail(before, "InvalidSize")}
       ELSE IF GetBaseType(value) = "Boolean"
       THEN {Fail(before, "TypeMismatch")}
       ELSE UNION
            {IF u = "crash"
             THEN {Fail(before, "crash")}
             ELSE {IF returnValue.status # "ok"
                   THEN returnValue
                   ELSE LET returnLayout == returnValue.value.layout
                            offsets == LoopOffsets(returnLayout)
                            visited == {offsets[i] + 1 : i \in DOMAIN offsets}
                        IN [Emit(returnValue, EmitIntrinsicLoop(name, returnLayout))
                               EXCEPT !.value.mem =
                                   [i \in DOMAIN returnValue.value.mem |->
                                       IF i \in visited
                                       THEN RuntimeFunction(name, value.mem[i])
                                       ELSE returnValue.value.mem[i]]]
                   : returnValue \in AllocateAfter(before, GetBaseType(value),
                                                   IF IsConstrained(value)
                                                   THEN value.layout
                                                   ELSE ScalarLayout)}
             : u \in UseEmitter(captured)}

\* the relation of the cmpOp of MaxMinIntrinsicFunction
MaxMinRelation(intrinsic) ==
    IF intrinsic = "max" THEN "greaterthanorequal" ELSE "lessthanorequal"

\* fnEmitter.Select(fnEmitter.Comparison(cmpOp, op1, op2), op1, op2)
Select(intrinsic, op1, op2) ==
    IF Comparison(MaxMinRelation(intrinsic), op1, op2) THEN op1 ELSE op2

RECURSIVE MaxMinLoop(_, _, _, _, _)
\* what the result holds after the rounds of the do-while from the i-th on
MaxMinLoop(intrinsic, held, value, offsets, i) ==
    IF i > Len(offsets)
    THEN held
    ELSE MaxMinLoop(intrinsic, Select(intrinsic, held, value.mem[offsets[i] + 1]), value,
                    offsets, i + 1)

\* the initial SetValueAt and the do-while of the single-argument form
EmitMaxMinLoop(cmpOp, layout) ==
    LET offsets == LoopOffsets(layout)
    IN <<Instruction("SetValueAt", "", 0)>>
       \o [i \in 1..(2 * Len(offsets)) |->
              IF i % 2 = 1
              THEN Instruction("Select", cmpOp, offsets[(i + 1) \div 2])
              ELSE Instruction("SetValueAt", "", 0)]

\* the lambda MaxMinIntrinsicFunction returns; before.value holds args
MaxMinIntrinsicFunction(intrinsic, captured, before) ==
    LET args == before.value
        value1 == args[1]
        cmpOp == TypedComparison(MaxMinRelation(intrinsic), IsFloatingPoint(value1))
        emit(f(_)) ==
            UNION {IF u = "crash"
                   THEN {Fail(before, "crash")}
                   ELSE {IF allocated.status # "ok" THEN allocated ELSE f(allocated)
                         : allocated \in AllocateAfter(before, GetBaseType(value1), ScalarLayout)}
                   : u \in UseEmitter(captured)}
        single(allocated) ==
            [Emit(allocated, EmitMaxMinLoop(cmpOp, value1.layout))
                EXCEPT !.value.mem = <<MaxMinLoop(intrinsic, value1.mem[1], value1,
                                                  LoopOffsets(value1.layout), 1)>>]
        pair(allocated) ==
            [Emit(allocated, <<Instruction("Select", cmpOp, 0), Instruction("SetValueAt", "", 0)>>)
                EXCEPT !.value.mem = <<Select(intrinsic, value1.mem[1], args[2].mem[1])>>]
    IN IF Len(args) = 1
       THEN IF GetBaseType(value1) = "Boolean"
            THEN {Fail(before, "TypeMismatch")}
            ELSE emit(single)
       ELSE IF Len(args) = 2
       THEN IF GetBaseType(value1) # GetBaseType(args[2])
            THEN {Fail(before, "TypeMismatch")}
            ELSE IF GetBaseType(value1) = "Boolean"
            THEN {Fail(before, "TypeMismatch")}
            ELSE IF \/ (IsConstrained(value1) /\ value1.layout # ScalarLayout)
                    \/ (IsConstrained(args[2]) /\ args[2].layout # ScalarLayout)
            THEN {Fail(before, "InvalidSize")}
            ELSE emit(pair)
       ELSE {Fail(before, "InvalidSize")}

\* the interpreting backend's intrinsics on constant arguments: one non-boolean
\* argument, the function at every element or the greatest (least) element of
\* the active region
ComputeCall(intrinsic, args) ==
    LET value == args[1]
        offsets == LoopOffsets(value.layout)
        visited == {offsets[i] + 1 : i \in DOMAIN offsets}
    IN IF Len(args) # 1
       THEN Unchanged("InvalidArgument", NoValue)
       ELSE IF GetBaseType(value) = "Boolean"
       THEN Unchanged("TypeMismatch", NoValue)
       ELSE IF intrinsic.name \in {"max", "min"}
       THEN Unchanged("ok", TypedValue(ComputedData, value.type, 1, ScalarLayout,
                                       <<MaxMinLoop(intrinsic.name, value.mem[offsets[1] + 1],
                                                    value, offsets, 1)>>))
       ELSE Unchanged("ok", TypedValue(ComputedData, value.type, 1, value.layout,
                                       [i \in 1..GetMemorySize(value.layout) |->
                                           IF i \in visited
                                           THEN RuntimeFunction(intrinsic.name, value.mem[i])
                                           ELSE 0]))

\* the entry of the intrinsic table for a declaration
IntrinsicLowering(intrinsic, captured, before) ==
    IF intrinsic.name \in {"max", "min"}
    THEN MaxMinIntrinsicFunction(intrinsic.name, captured, before)
    ELSE SimpleNumericalFunctionIntrinsic(intrinsic.name, captured, before)

\* an outcome of CallImpl: the tier that handled the call and the emitter the
\* intrinsic table holds afterwards
CallOutcome(tier, captured, o) ==
    [status |-> o.status, value |-> o.value, promoted |-> o.promoted, storage |-> o.storage,
     emitted |-> o.emitted, tier |-> tier, captured |-> captured]

\* the set of outcomes of IntrinsicCall
IntrinsicCall(intrinsic, args) ==
    UNION {IF captured = NoEmitter
           THEN {CallOutcome("intrinsic", intrinsicEmitter, Unchanged("crash", NoValue))}
           ELSE IF \A i \in DOMAIN args : IsConstant(args[i].data)
           THEN {CallOutcome("intrinsic", captured, ComputeCall(intrinsic, args))}
           ELSE UNION {IF emittableArgs.status # "ok"
                       THEN {CallOutcome("intrinsic", captured, Fail(emittableArgs, emittableArgs.status))}
                       ELSE {CallOutcome("intrinsic", captured, o)
                             : o \in IntrinsicLowering(intrinsic, captured, emittableArgs)}
                       : emittableArgs \in EnsureEmittableArgs(args, Len(args))}
           : captured \in CaptureEmitter}

\* a callable that takes whatever it is given
ArgumentTypesEqualAlways(args, argValues) == TRUE

\* std::equal over the arguments and the parameter types, on the base types
ArgumentTypesEqual(args, argValues) ==
    /\ Len(args) = Len(argValues)
    /\ \A i \in DOMAIN args : GetBaseType(args[i]) = argValues[i].type

\* the declared return: nothing, or a Value of the return type
HasReturn(decl) == decl.ret # Void

\* returnValueCopy->SetData(Emittable{ fnReturnValue })
ReturnedValue(decl) ==
    IF HasReturn(decl)
    THEN TypedValue(RegisterData, decl.ret.type, decl.ret.pointerLevel, NoLayout, <<>>)
    ELSE NoValue

\* the callable CreateFunctionImpl stored for decl; _emitter.GetCurrentFunction()
\* is the module emitter's current function, which outside any function is not there
DefinedCall(decl, args) ==
    IF ~ArgumentTypesEqual(args, decl.params)
    THEN {Unchanged("InvalidArgument", NoValue)}
    ELSE UNION {IF llvmArgs.status # "ok"
                THEN {Fail(llvmArgs, llvmArgs.status)}
                ELSE {IF e = "crash"
                      THEN Fail(llvmArgs, "crash")
                      ELSE [Emit(llvmArgs, <<Instruction("Call", decl.name, 0)>>)
                               EXCEPT !.value = ReturnedValue(decl)]
                      : e \in GetFunctionEmitter}
                : llvmArgs \in EnsureEmittableArgs(args, Len(args))}

\* a test of the base type alone
ArgumentPassesAnyLevel(arg, type) == GetBaseType(arg) = type.type

\* the loop of EmitExternalCall over the arguments: an argument passes when its
\* base type is the parameter's and its pointer level the parameter's or one more
ArgumentPasses(arg, type) ==
    /\ GetBaseType(arg) = type.type
    /\ \/ PointerLevel(arg) = type.pointerLevel
       \/ PointerLevel(arg) = type.pointerLevel + 1

\* what argValues receives for an argument that passes: the handle itself, or
\* fnEmitter.ValueAt(handle, 0) for an argument one pointer level above
ArgumentValue(arg, type) ==
    IF PointerLevel(arg) = type.pointerLevel
    THEN [pass |-> "unchanged", data |-> arg.data]
    ELSE [pass |-> "ValueAt", data |-> arg.data, offset |-> 0]

\* fnEmitter.Call(fn, argValues)
CallInstruction(fn, argValues) ==
    [instr |-> "Call", op |-> fn, offset |-> 0, args |-> argValues]

\* the set of outcomes of EmitExternalCall
EmitExternalCall(externalFunc, args) ==
    LET argTypes == externalFunc.params
        failing == {i \in DOMAIN args : ~ArgumentPasses(args[i], argTypes[i])}
        firstFailing == CHOOSE i \in failing : \A j \in failing : i <= j
        declare == <<Instruction("DeclareFunction", externalFunc.name, 0)>>
    IN IF Len(args) # Len(argTypes)
       THEN {Unchanged("SizeMismatch", NoValue)}
       ELSE UNION
            {IF e = "crash"
             THEN {Unchanged("crash", NoValue)}
             ELSE IF failing # {}
             THEN {Fail(Emit(argValues, declare),
                        IF argValues.status = "ok" THEN "TypeMismatch" ELSE argValues.status)
                   : argValues \in EnsureEmittableArgs(args, firstFailing)}
             ELSE UNION
                  {IF argValues.status # "ok"
                   THEN {Fail(Emit(argValues, declare), argValues.status)}
                   ELSE LET passed == [i \in DOMAIN args |->
                                           ArgumentValue(argValues.value[i], argTypes[i])]
                            called == Emit(argValues, declare \o
                                           <<CallInstruction(externalFunc.name, passed)>>)
                        IN IF ~HasReturn(externalFunc)
                           THEN {[called EXCEPT !.value = NoValue]}
                           ELSE IF externalFunc.ret.pointerLevel = 0
                           THEN {IF allocated.status # "ok"
                                 THEN allocated
                                 ELSE Emit(allocated, <<Instruction("SetValueAt", "", 0)>>)
                                 : allocated \in AllocateAfter(called, externalFunc.ret.type,
                                                            ScalarLayout)}
                           ELSE {[called EXCEPT !.value = ReturnedValue(externalFunc)]}
                   : argValues \in EnsureEmittableArgs(args, Len(args))}
             : e \in GetFunctionEmitter}

\* the set of outcomes of CallImpl
Call(func, args) ==
    IF \E i \in DOMAIN args : IsEmpty(args[i])
    THEN {CallOutcome("none", intrinsicEmitter, Unchanged("InvalidArgument", NoValue))}
    ELSE LET tier == SelectTier(func)
         IN IF tier = "intrinsic"
            THEN IntrinsicCall(func, args)
            ELSE IF tier = "defined"
            THEN {CallOutcome(tier, intrinsicEmitter, o) : o \in DefinedCall(func, args)}
            ELSE {CallOutcome(tier, intrinsicEmitter, o) : o \in EmitExternalCall(func, args)}

\* a Call takes the context, the instructions and the intrinsic table of one of
\* its outcomes; a run holds fewer than bound value operations before it
TakeCall(func, args, bound) ==
    /\ opCount < bound
    /\ \E o \in Call(func, args) :
        /\ WithinStorage(o.storage)
        /\ promotedConstantStack' = o.promoted
        /\ storage' = o.storage
        /\ emitted' = o.emitted
        /\ intrinsicEmitter' = o.captured
        /\ result' = Outcome("Call", o.status, [func |-> func, args |-> args, tier |-> o.tier],
                             o.value)
    /\ opCount' = opCount + 1
    /\ UNCHANGED <<functionStack, globals, definedFunctions, callStack, registered, forVars>>

CallImpl(func, args) ==
    /\ Running
    /\ TakeCall(func, args, MaxOps)

\* CallImpl in a run that holds several calls
CallImplRepeated(func, args) ==
    /\ Running
    /\ TakeCall(func, args, MaxCalls)

\* the declarations called: three intrinsics, a function that is defined in the
\* course of the run and three external functions
CallIntrinsics == {Decl(n, <<>>) : n \in {"abs", "max", "min"}}

DefinedDecl == Decl("g", <<TypeDescription("Int32", 1)>>)

ExternalDecls ==
    {Decl("h", <<TypeDescription("Int32", 0), TypeDescription("Float", 2)>>),
     [name |-> "k", params |-> <<TypeDescription("Int32", 1)>>,
      ret |-> TypeDescription("Int32", 0)],
     [name |-> "p", params |-> <<TypeDescription("Int32", 0)>>,
      ret |-> TypeDescription("Int32", 1)]}

CallDecls == CallIntrinsics \cup {DefinedDecl} \cup ExternalDecls

\* the arguments: Int32 arguments of the function in each layout and at pointer
\* levels 1 and 2, a Float, a Boolean, an empty Value, a constant vector
CallArguments ==
    UNION {{RuntimeValue(-1, "Int32", 1, layout, mem) : mem \in Memories(layout)} :
             layout \in {VectorLayout, PaddedLayout}}
    \cup {RuntimeValue(-1, "Int32", 1, ScalarLayout, <<0 - 1>>),
          RuntimeValue(-1, "Int32", 2, ScalarLayout, <<1>>),
          RuntimeValue(-1, "Int32", 1, MemoryLayout(<<0>>, <<0>>, <<0>>), <<>>),
          RuntimeValue(-2, "Float", 1, ScalarLayout, <<1>>),
          RuntimeValue(-2, "Boolean", 1, ScalarLayout, <<1>>),
          TypedConstant(BufferBase(1), VectorLayout)}

\* argument lists of one argument, and of two with a runtime scalar in front
CallArgumentLists ==
    {<<a>> : a \in CallArguments}
    \cup {<<RuntimeValue(-1, "Int32", 1, ScalarLayout, <<0 - 1>>), a>> :
            a \in {RuntimeValue(-1, "Int32", 1, ScalarLayout, <<0 - 1>>),
                   RuntimeValue(-2, "Float", 1, ScalarLayout, <<1>>),
                   TypedConstant(BufferBase(1), VectorLayout)}}

CallInputs == [func : CallDecls, args : CallArgumentLists]

\* calls of intrinsics: one or two runtime scalars, or a constant vector
IntrinsicInputs ==
    [func : {Decl(n, <<>>) : n \in {"abs", "max"}},
     args : {<<RuntimeValue(-1, "Int32", 1, ScalarLayout, <<0 - 1>>)>>,
             <<RuntimeValue(-1, "Int32", 1, ScalarLayout, <<0 - 1>>),
               RuntimeValue(-1, "Int32", 1, ScalarLayout, <<0 - 1>>)>>,
             <<TypedConstant(BufferBase(1), VectorLayout)>>}]

\* ------------------------------------------------------------------ IsFunctionDefined
\* an answer that counts the declarations whose body is being emitted
IsFunctionDefinedWhileEmitted(decl) ==
    \/ IsIntrinsic(decl)
    \/ IsCached(decl)
    \/ \E i \in DOMAIN callStack : callStack[i] = decl

\* IsFunctionDefinedImpl: an intrinsic, or a key of _definedFunctions
IsFunctionDefined(decl) == IsIntrinsic(decl) \/ IsCached(decl)

IsFunctionDefinedImpl(decl) ==
    /\ Running
    /\ result' = Outcome("IsFunctionDefined", "ok", [decl |-> decl],
                         [defined |-> IsFunctionDefined(decl)])
    /\ UNCHANGED <<ctxVars, forVars, opVars, callVars>>

\* ------------------------------------------------------------------ GetType
\* the backend types: integers of a bit width, float, double, void, pointers
IntegerTy(bits) == [id |-> "Integer", bits |-> bits]

FloatTy == [id |-> "Float"]

DoubleTy == [id |-> "Double"]

VoidTy == [id |-> "Void"]

PointerTo(type) == [id |-> "Pointer", element |-> type]

RECURSIVE PointerLevels(_, _)
\* the loop of ValueTypeToLLVMType: getPointerTo, pointerLevel times
PointerLevels(type, pointerLevel) ==
    IF pointerLevel <= 0 THEN type ELSE PointerLevels(PointerTo(type), pointerLevel - 1)

ValueTypes == {"Boolean", "Byte", "Char8", "Int16", "Int32", "Int64", "Float", "Double"}

\* the Boolean case of ValueTypeToLLVMType
BooleanTy(pointerLevel) == IF pointerLevel = 0 THEN IntegerTy(1) ELSE IntegerTy(8)

\* the switch of ValueTypeToLLVMType over the base type
ScalarTy(typeDescription) ==
    CASE typeDescription.type = "Boolean" -> BooleanTy(typeDescription.pointerLevel)
      [] typeDescription.type \in {"Byte", "Char8"} -> IntegerTy(8)
      [] typeDescription.type = "Int16" -> IntegerTy(16)
      [] typeDescription.type = "Int32" -> IntegerTy(32)
      [] typeDescription.type = "Int64" -> IntegerTy(64)
      [] typeDescription.type = "Float" -> FloatTy
      [] typeDescription.type = "Double" -> DoubleTy
      [] typeDescription.type = "Void" -> VoidTy

\* ValueTypeToLLVMType, for the types that have a backend type
ValueTypeToLLVMType(typeDescription) ==
    PointerLevels(ScalarTy(typeDescription), typeDescription.pointerLevel)

\* what LLVMTypeToValueType returns or throws
Described(status, type, pointerLevel) ==
    [status |-> status, value |-> TypeDescription(type, pointerLevel)]

RECURSIVE LLVMTypeToValueType(_)
\* LLVMTypeToValueType: an integer of a width that is not listed leaves the
\* inner switch and is read as a pointer, which it is not
LLVMTypeToValueType(type) ==
    CASE type.id = "Float" -> Described("ok", "Float", 0)
      [] type.id = "Double" -> Described("ok", "Double", 0)
      [] type.id = "Integer" ->
            (CASE type.bits = 1 -> Described("ok", "Boolean", 0)
               [] type.bits = 8 -> Described("ok", "Char8", 0)
               [] type.bits = 16 -> Described("ok", "Int16", 0)
               [] type.bits = 32 -> Described("ok", "Int32", 0)
               [] type.bits = 64 -> Described("ok", "Int64", 0)
               [] OTHER -> Described("undefined", "Undefined", 0))
      [] type.id = "Pointer" ->
            LET underlyingType == LLVMTypeToValueType(type.element)
            IN [underlyingType EXCEPT !.value.pointerLevel = @ + 1]
      [] OTHER -> Described("IllegalState", "Undefined", 0)

\* an Emittable: the backend type of its storage, and the TypeDescription the
\* storage was made for
TypedEmittable(typeDescription) ==
    [type |-> ValueTypeToLLVMType(typeDescription), allocatedAs |-> typeDescription]

\* GetTypeImpl: the description of the backend type of the storage
GetType(emittable) == LLVMTypeToValueType(emittable.type)

GetTypeImpl(emittable) ==
    /\ Running
    /\ LET described == GetType(emittable)
       IN \E status \in IF described.status = "undefined"
                        THEN {"crash", "IllegalState"}
                        ELSE {described.status} :
             result' = Outcome("GetType", status, [emittable |-> emittable],
                               IF status = "ok" THEN described.value ELSE NoValue)
    /\ UNCHANGED <<ctxVars, forVars, opVars, callVars>>

\* the storage GetType is asked about: every base type at every pointer level up
\* to MaxPointerLevel, and void
Emittables ==
    {TypedEmittable(TypeDescription(t, p)) : t \in ValueTypes, p \in 0..MaxPointerLevel}
    \cup {TypedEmittable(Void)}

\* ------------------------------------------------------------------ Cast
\* a conversion loop over the coordinates of the active region
CastIndexesActive(layout) == LoopOffsets(layout)

\* for (index = 0; index < castedData.GetLayout().GetMemorySize(); ++index)
CastIndexes(layout) == [i \in 1..GetMemorySize(layout) |-> i - 1]

\* fn.CastValue: an integer narrowed to a Byte keeps its low 8 bits; the
\* elements given are exact in every wider type
CastValue(x, type) == IF type = "Byte" THEN x % 256 ELSE x

\* SetValueAt(castedValue, index, CastValue(ValueAt(data, index), type)) per index
EmitCastLoop(type, indexes) ==
    [i \in 1..(2 * Len(indexes)) |->
        IF i % 2 = 1
        THEN Instruction("CastValue", type, indexes[(i + 1) \div 2])
        ELSE Instruction("SetValueAt", "", indexes[i \div 2])]

\* mem with the elements at the given indexes converted from another memory
CastElements(mem, from, type, indexes) ==
    LET converted == {indexes[i] + 1 : i \in DOMAIN indexes}
    IN [i \in DOMAIN mem |-> IF i \in converted THEN CastValue(from[i], type) ELSE mem[i]]

\* the interpreting backend: a constant of the target type and the same layout,
\* the elements of the active region converted
ComputeCast(value, type) ==
    Unchanged("ok", TypedValue(ComputedData, type, 1, value.layout,
                               CastElements([i \in 1..GetMemorySize(value.layout) |-> 0],
                                            value.mem, type, LoopOffsets(value.layout))))

\* the set of outcomes of CastImpl
Cast(value, type) ==
    IF IsConstant(value.data)
    THEN {ComputeCast(value, type)}
    ELSE IF ~IsDefined(value)
    THEN {Unchanged("BadVariantAccess", NoValue)}
    ELSE UNION
         {IF e = "crash"
          THEN {Unchanged("crash", NoValue)}
          ELSE {IF castedData.status # "ok"
                THEN castedData
                ELSE LET indexes == CastIndexes(castedData.value.layout)
                     IN [Emit(castedData, EmitCastLoop(type, indexes))
                            EXCEPT !.value.mem = CastElements(castedData.value.mem, value.mem,
                                                              type, indexes)]
                : castedData \in Allocate(type, IF IsConstrained(value)
                                                THEN value.layout
                                                ELSE ScalarLayout)}
          : e \in GetFunctionEmitter}

CastImpl(value, type) ==
    /\ Running
    /\ \E o \in Cast(value, type) : TakeOutcome("Cast", [value |-> value, type |-> type], o)

\* the Values cast: an Int32 argument seen as a vector and through the padded
\* layout, holding elements below and above the range of a Byte, an
\* unconstrained Int32, a constant vector, no Value
CastValues ==
    UNION {{RuntimeValue(-1, "Int32", 1, layout, [i \in DOMAIN mem |-> 255 + mem[i]]) :
               mem \in Memories(layout)} :
             layout \in {VectorLayout, PaddedLayout}}
    \cup {RuntimeValue(-1, "Int32", 1, NoLayout, <<257>>),
          TypedConstant(BufferBase(1), VectorLayout),
          UndefinedTyped}

CastInputs == [value : CastValues, type : {"Byte", "Double"}]

\* ------------------------------------------------------------------ DebugDump
\* The set of outcomes of DebugDumpImpl: the dump of the interpreting backend
\* for a realized constant, else std::get<Emittable> on the data of the Value
\* that was passed in
DebugDump(value) ==
    {IF realizedValue.status # "ok"
     THEN realizedValue.status
     ELSE IF IsConstant(realizedValue.value)
     THEN "ok"
     ELSE IF value.kind = "emittable"
     THEN "ok"
     ELSE "BadVariantAccess" : realizedValue \in Realize(value)}

DebugDumpImpl(value) ==
    /\ Running
    /\ \E status \in DebugDump(value) :
          result' = Outcome("DebugDump", status, [value |-> value], NoValue)
    /\ UNCHANGED <<ctxVars, forVars, opVars, callVars>>

\* ------------------------------------------------------------------ specifications
\* function definition and constant promotion
Next ==
    \/ \E decl \in Decls : CreateFunctionImpl(decl)
    \/ \E returnValue \in {NoValue} \cup ConstantValues : CreateFunctionReturn(returnValue)
    \/ CreateFunctionThrow
    \/ \E value \in Values : EnsureEmittableStep(value)

Spec == Init /\ [][Next]_vars

\* function definition and the global registry
NextGlobals ==
    \/ \E decl \in Decls : CreateFunctionImpl(decl)
    \/ CreateFunctionReturn(NoValue)
    \/ CreateFunctionThrow
    \/ \E scope \in Scopes, name \in GlobalNames, input \in GlobalInputs :
        GlobalAllocateImpl(scope, name, input.init, input.layout)
    \/ \E scope \in Scopes, name \in GlobalNames : GetGlobalValue(scope, name)

SpecGlobals == Init /\ [][NextGlobals]_vars

\* coordinate iteration
NextFor ==
    \/ \E layout \in ForLayouts : ForImpl(layout)
    \/ ForImplIteration

SpecFor == Init /\ [][NextFor]_vars

\* function definition and BinaryOperation
NextBinary ==
    \/ CreateFunctionImpl(Decl("f", <<>>))
    \/ CreateFunctionReturn(NoValue)
    \/ CreateFunctionThrow
    \/ \E i \in BinaryInputs : BinaryOperationImpl(i.op, i.destination, i.source)

SpecBinary == Init /\ [][NextBinary]_vars

\* function definition and LogicalOperation
NextLogical ==
    \/ CreateFunctionImpl(Decl("f", <<>>))
    \/ CreateFunctionReturn(NoValue)
    \/ CreateFunctionThrow
    \/ \E i \in LogicalInputs : LogicalOperationImpl(i.op, i.source1, i.source2)

SpecLogical == Init /\ [][NextLogical]_vars

\* function definition, CopyData and MoveData
NextCopy ==
    \/ CreateFunctionImpl(Decl("f", <<>>))
    \/ CreateFunctionReturn(NoValue)
    \/ CreateFunctionThrow
    \/ \E i \in CopyInputs : CopyDataImpl(i.source, i.destination, i.aliased)
    \/ \E i \in CopyInputs : MoveDataImpl(i.source, i.destination, i.aliased)

SpecCopy == Init /\ [][NextCopy]_vars

\* function definition, Call and IsFunctionDefined
NextCall ==
    \/ CreateFunctionImpl(DefinedDecl)
    \/ CreateFunctionReturn(NoValue)
    \/ CreateFunctionThrow
    \/ \E i \in CallInputs : CallImpl(i.func, i.args)
    \/ \E decl \in CallDecls : IsFunctionDefinedImpl(decl)

SpecCall == Init /\ [][NextCall]_vars

\* definition of two functions and calls of intrinsics
NextIntrinsic ==
    \/ \E decl \in {Decl("f", <<>>), DefinedDecl} : CreateFunctionImpl(decl)
    \/ CreateFunctionReturn(NoValue)
    \/ CreateFunctionThrow
    \/ \E i \in IntrinsicInputs : CallImplRepeated(i.func, i.args)

SpecIntrinsic == Init /\ [][NextIntrinsic]_vars

\* function definition and GetType
NextType ==
    \/ \E decl \in {Decl("f", <<>>), DefinedDecl} : CreateFunctionImpl(decl)
    \/ CreateFunctionReturn(NoValue)
    \/ CreateFunctionThrow
    \/ \E emittable \in Emittables : GetTypeImpl(emittable)

SpecType == Init /\ [][NextType]_vars

\* function definition and Cast
NextCast ==
    \/ CreateFunctionImpl(Decl("f", <<>>))
    \/ CreateFunctionReturn(NoValue)
    \/ CreateFunctionThrow
    \/ \E i \in CastInputs : CastImpl(i.value, i.type)

SpecCast == Init /\ [][NextCast]_vars

\* function definition, constant promotion and DebugDump
NextDump ==
    \/ CreateFunctionImpl(Decl("f", <<>>))
    \/ CreateFunctionReturn(NoValue)
    \/ CreateFunctionThrow
    \/ \E value \in ConstantValues : EnsureEmittableStep(value)
    \/ \E value \in Values : DebugDumpImpl(value)

SpecDump == Init /\ [][NextDump]_vars

\* ------------------------------------------------------------------ claims
\* the record of buffer data in promoted-constant entry scope, as a set
RecordsOf(scope, data) == {i \in 1..Len(scope) : scope[i].data = data}

\* the last operation was an EnsureEmittable of a constant Value that produced a handle
PromotedAConstant ==
    /\ result.op = "EnsureEmittable"
    /\ result.status = "ok"
    /\ IsConstant(result.arg.value)

C1_State ==
    /\ \A k \in 1..Len(promotedConstantStack) :
        \A i, j \in 1..Len(promotedConstantStack[k]) :
            i # j => /\ promotedConstantStack[k][i].data # promotedConstantStack[k][j].data
                     /\ promotedConstantStack[k][i].realValue # promotedConstantStack[k][j].realValue
    /\ PromotedAConstant =>
        \E i \in RecordsOf(Last(promotedConstantStack), GetConstantData(result.arg.value)) :
            result.value.base = Last(promotedConstantStack)[i].realValue

C1_Step ==
    Len(functionStack') = Len(functionStack) /\ callStack' = callStack =>
        SubSeq(Last(promotedConstantStack'), 1, Len(Last(promotedConstantStack)))
            = Last(promotedConstantStack)

\* C1: while the current scope stays the same, every EnsureEmittable of a constant
\* Value resolves to the storage of the one record its buffer has in that scope:
\* a scope never holds two records for one buffer, two buffers (even with equal
\* contents) never share storage, and a record stays as it was made.
C1_IdempotentPromotion == [](C1_State) /\ [][C1_Step]_vars

\* two buffers promoted inside a function, then the first one promoted again
C1_Witness ==
    /\ PromotedAConstant
    /\ functionStack # <<>>
    /\ Len(Last(promotedConstantStack)) = 2
    /\ result.value.base = Last(promotedConstantStack)[1].realValue

\* C2: the handle EnsureEmittable produces for a constant Value, on first promotion
\* and on reuse, addresses the storage recorded for the Value's buffer at offset
\* (data pointer - start of the buffer), and that storage holds the whole buffer.
C2_HandleAtSubOffset ==
    PromotedAConstant =>
        LET data == GetConstantData(result.arg.value)
        IN \E i \in RecordsOf(Last(promotedConstantStack), data) :
            /\ result.value = EmittableValue(Last(promotedConstantStack)[i].realValue,
                                             result.arg.value.ptr - BufferBase(data))
            /\ storage[Last(promotedConstantStack)[i].realValue].data = BufferData(data)

\* a reuse, inside a function, of a buffer through a view that starts at its element 1
C2_Witness ==
    /\ PromotedAConstant
    /\ functionStack # <<>>
    /\ Len(Last(promotedConstantStack)) = 2
    /\ result.value.base = Last(promotedConstantStack)[1].realValue
    /\ result.value.off = 1
    /\ result.value.base < Len(storage)

\* the scope-qualified name a registration is filed under, written out
QualifiedName(scope, name) ==
    IF scope = "Global"
    THEN ModuleName \o "_" \o name
    ELSE ModuleName \o "_" \o Last(functionStack) \o "_" \o name

\* the scope-qualified name exists (Function scope needs a function being emitted)
HasQualifiedName(scope) == scope = "Global" \/ functionStack # <<>>

\* C3: a GlobalAllocate (either overload) whose scope-qualified name is already
\* registered fails with InvalidArgument and leaves the registry as it was.
C3_CollisionRejected ==
    [][(/\ result'.op = "GlobalAllocate"
        /\ HasQualifiedName(result'.arg.scope)
        /\ QualifiedName(result'.arg.scope, result'.arg.name) \in DOMAIN globals)
       => /\ result'.status = "InvalidArgument"
          /\ globals' = globals]_vars

\* a rejected registration whose layout differs from the registered one
C3_Witness ==
    /\ result.op = "GlobalAllocate"
    /\ result.status = "InvalidArgument"
    /\ globals[QualifiedName(result.arg.scope, result.arg.name)].layout # result.arg.layout

\* C4: a registration is rejected only if the same scope kind, name and (for
\* Function scope) current function were registered before.
C4_CollideOnlySameKey ==
    (result.op = "GlobalAllocate" /\ result.status = "InvalidArgument")
        => RegistrationKey(result.arg.scope, result.arg.name) \in registered

\* C5 as stated: GetGlobalValue never fails.
C5_NeverFails ==
    result.op = "GetGlobalValue" => result.status \in {"ok", "not found"}

\* C5, amended: GetGlobalValue never changes the context; it returns the pair
\* registered under the scope-qualified name, or "not found"; for Function scope
\* with no function being emitted it fails with illegalState.
C5_LookupOrIllegalState ==
    [][result'.op = "GetGlobalValue" =>
        /\ UNCHANGED ctxVars
        /\ IF ~HasQualifiedName(result'.arg.scope)
           THEN result'.status = "illegalState"
           ELSE LET qualified == QualifiedName(result'.arg.scope, result'.arg.name)
                IN IF qualified \in DOMAIN globals
                   THEN result'.status = "ok" /\ result'.value = globals[qualified]
                   ELSE result'.status = "not found" /\ result'.value = NoValue]_vars

\* a Function-scoped global found while its function is being emitted, another
\* global being registered at module scope
C5_Witness ==
    /\ result.op = "GetGlobalValue"
    /\ result.status = "ok"
    /\ result.arg.scope = "Function"
    /\ Cardinality(DOMAIN globals) = 2
    /\ \E n \in DOMAIN globals : globals[n] # result.value

\* C6: CreateFunction of a declaration that is in the defined-function map returns
\* the cached callable: no body is invoked, no scope pushed, nothing changes.
C6_CachedNotReinvoked ==
    [][\A decl \in definedFunctions :
        /\ callStack' # Append(callStack, decl)
        /\ (/\ result'.op = "CreateFunction"
            /\ result'.arg.decl = decl
            /\ result'.status \in {"cached", "body", "InvalidArgument"})
           => (result'.status = "cached" /\ UNCHANGED ctxVars)]_vars

\* a cached declaration given to CreateFunction again, inside another body
C6_Witness ==
    /\ result.op = "CreateFunction"
    /\ result.status = "cached"
    /\ result.arg.decl \in definedFunctions
    /\ callStack # <<>>

\* C7: an intrinsic declaration is rejected with InvalidArgument, its body is
\* never invoked and it never becomes a key of the defined-function map.
C7_IntrinsicRejected ==
    /\ definedFunctions \cap GetIntrinsics = {}
    /\ \A i \in 1..Len(callStack) : callStack[i] \notin GetIntrinsics
    /\ (result.op = "CreateFunction" /\ result.arg.decl \in GetIntrinsics)
        => result.status = "InvalidArgument"

\* abs rejected inside the body of another definition
C7_Witness ==
    /\ result.op = "CreateFunction"
    /\ result.status = "InvalidArgument"
    /\ result.arg.decl = Decl("abs", <<>>)
    /\ callStack # <<>>
    /\ definedFunctions # {}

C8_State ==
    /\ Len(promotedConstantStack) = Len(functionStack) + 1
    /\ Len(functionStack) = Len(callStack)

C8_Step ==
    /\ Len(callStack') > Len(callStack) =>
        /\ callStack' = Append(callStack, Last(callStack'))
        /\ functionStack' = Append(functionStack, Last(callStack').name)
        /\ promotedConstantStack' = Append(promotedConstantStack, <<>>)
    /\ Len(callStack') < Len(callStack) =>
        /\ callStack' = Front(callStack)
        /\ functionStack' = Front(functionStack)
        /\ promotedConstantStack' = Front(promotedConstantStack)
    /\ Len(callStack') = Len(callStack) =>
        /\ functionStack' = functionStack
        /\ Front(promotedConstantStack') = Front(promotedConstantStack)

\* C8: the promotion stack always has one entry more than the function stack;
\* entering a definition pushes one entry on each (the promotion entry empty),
\* leaving it (by return or by error) pops the top of each, and no other step
\* touches anything but the top promotion entry.
C8_ScopesNest == [](C8_State) /\ [][C8_Step]_vars

\* a nested definition that failed, back in the enclosing function whose
\* promotion entry still holds its record
C8_Witness ==
    /\ result.op = "CreateFunction"
    /\ result.status = "exception"
    /\ Len(functionStack) = 1
    /\ Len(promotedConstantStack) = 2
    /\ Len(promotedConstantStack[2]) = 1
    /\ definedFunctions = {}

RECURSIVE ProductFrom(_, _)
\* the product of the active sizes of dimensions i..n
ProductFrom(layout, i) == IF i > Len(layout) THEN 1 ELSE layout[i] * ProductFrom(layout, i + 1)

\* the k-th (from 0) coordinate in lexicographic order, last dimension fastest
NthCoordinate(layout, k) ==
    [i \in 1..Len(layout) |-> (k \div ProductFrom(layout, i + 1)) % layout[i]]

\* C9: for a layout with every active size >= 1, elementFn is invoked with the
\* coordinates in lexicographic order, last dimension fastest, from the all-zero
\* coordinate, each exactly once.
C9_LexicographicOrder ==
    (forPc # "idle" /\ \A i \in 1..Len(forLayout) : forLayout[i] >= 1) =>
        /\ Len(forCalls) <= ProductFrom(forLayout, 1)
        /\ \A k \in 1..Len(forCalls) : forCalls[k] = NthCoordinate(forLayout, k - 1)
        /\ forPc = "done" => Len(forCalls) = ProductFrom(forLayout, 1)

C9_Witness ==
    /\ forPc = "done"
    /\ forLayout = <<2, 3>>
    /\ forCalls = << <<0, 0>>, <<0, 1>>, <<0, 2>>, <<1, 0>>, <<1, 1>>, <<1, 2>> >>

\* C10: For invokes elementFn as many times as the active region has coordinates.
C10_CallsEqualProduct ==
    forPc = "done" => Len(forCalls) = ProductFrom(forLayout, 1)

\* the last operation was a BinaryOperation on a defined source and a defined
\* destination that are not both constant
BinaryNotFolded ==
    /\ result.op = "BinaryOperation"
    /\ IsDefined(result.arg.source)
    /\ IsDefined(result.arg.destination)
    /\ ~(IsConstant(result.arg.source.data) /\ IsConstant(result.arg.destination.data))

NoOperatorEmitted == \A i \in 1..Len(emitted) : emitted[i].instr # "Operator"

\* C11: BinaryOperation on a defined source and a defined destination that are
\* not both constant fails with TypeMismatch when the base types differ (whatever
\* the layouts) and with SizeMismatch when the base types are equal and the
\* layouts differ; no arithmetic instruction is emitted in either case.
C11_MismatchRejected ==
    BinaryNotFolded =>
        /\ result.arg.destination.type # result.arg.source.type =>
               result.status = "TypeMismatch" /\ NoOperatorEmitted
        /\ (/\ result.arg.destination.type = result.arg.source.type
            /\ result.arg.destination.layout # result.arg.source.layout) =>
               result.status = "SizeMismatch" /\ NoOperatorEmitted

\* a constant Float scalar added into a runtime Int32 vector: both mismatches at once
C11_Witness ==
    /\ BinaryNotFolded
    /\ result.status = "TypeMismatch"
    /\ result.arg.destination.type = "Int32"
    /\ result.arg.source.type = "Float"
    /\ IsConstant(result.arg.source.data)
    /\ result.arg.destination.layout # result.arg.source.layout

\* the last operation was a BinaryOperation on two constants of one type and one
\* layout, with an operator the interpreting backend has for that type
BinaryFolded ==
    /\ result.op = "BinaryOperation"
    /\ IsConstant(result.arg.source.data)
    /\ IsConstant(result.arg.destination.data)
    /\ result.arg.destination.type = result.arg.source.type
    /\ result.arg.destination.layout = result.arg.source.layout
    /\ result.arg.op = "modulus" => result.arg.destination.type \notin {"Float", "Double"}

C12_State ==
    BinaryFolded =>
        LET folded == ComputeBinaryOperation(result.arg.op, result.arg.destination,
                                             result.arg.source)
        IN /\ result.status = "ok"
           /\ result.status = folded.status
           /\ result.value = folded.value
           /\ emitted = <<>>

C12_Step ==
    (opCount' # opCount /\ result'.op = "BinaryOperation"
     /\ IsConstant(result'.arg.source.data) /\ IsConstant(result'.arg.destination.data))
        => UNCHANGED <<promotedConstantStack, storage>>

\* C12: BinaryOperation on two constants returns what the interpreting backend
\* computes for the same operator and operands, emits no instruction and leaves
\* the promoted-constant records and the backend storage as they were.
C12_FoldedByInterpreter == [](C12_State) /\ [][C12_Step]_vars

\* an Int32 vector divided by itself inside a function: the quotients, no promotion
C12_Witness ==
    /\ BinaryFolded
    /\ result.arg.op = "divide"
    /\ result.arg.destination.layout = VectorLayout
    /\ result.arg.destination.type = "Int32"
    /\ result.value.mem = <<1, 1>>
    /\ functionStack # <<>>
    /\ promotedConstantStack = << <<>>, <<>> >>

\* the last operation was a modulus on floating-point operands, not both constant
ModulusOnFloats ==
    /\ BinaryNotFolded
    /\ result.arg.op = "modulus"
    /\ result.arg.destination.type \in {"Float", "Double"}
    /\ result.arg.source.type \in {"Float", "Double"}

\* C20 as stated: modulus on floating-point operands that are not both constant
\* fails with InvalidArgument whatever the layouts, and emits no operator.
C20_FloatModulusRejected ==
    ModulusOnFloats => result.status = "InvalidArgument" /\ NoOperatorEmitted

\* C20 amended: the type and layout checks come first, and the operator is
\* chosen only once a function emitter was obtained.
C20_FloatModulusRejectedAfterChecks ==
    ModulusOnFloats =>
        /\ NoOperatorEmitted
        /\ result.status =
              IF result.arg.destination.type # result.arg.source.type THEN "TypeMismatch"
              ELSE IF result.arg.destination.layout # result.arg.source.layout
                   THEN "SizeMismatch"
                   ELSE IF functionStack # <<>> THEN "InvalidArgument" ELSE result.status
        /\ result.status \in {"TypeMismatch", "SizeMismatch", "InvalidArgument", "crash"}

\* a constant Float vector taken modulo a runtime Float vector inside a function
C20_Witness ==
    /\ ModulusOnFloats
    /\ functionStack # <<>>
    /\ result.status = "InvalidArgument"
    /\ IsConstant(result.arg.destination.data)
    /\ result.arg.source.type = "Float"

\* the logical coordinates of the active region of a layout
ActiveCoordinates(layout) ==
    {c \in [1..Len(layout.size) -> 0..MaxDim] : \A d \in 1..Len(layout.size) : c[d] < layout.size[d]}

\* the relation holds between the elements of a and b at every logical coordinate
RelationEverywhere(op, a, b) ==
    \A c \in ActiveCoordinates(a.layout) :
        Comparison(op, a.mem[GetLogicalEntryOffset(a.layout, c) + 1],
                   b.mem[GetLogicalEntryOffset(b.layout, c) + 1])

\* the last operation was a LogicalOperation on two defined operands of one
\* layout, emitted into a function unless both are constant
LogicalCompleted ==
    /\ result.op = "LogicalOperation"
    /\ IsDefined(result.arg.source1)
    /\ IsDefined(result.arg.source2)
    /\ result.arg.source1.layout = result.arg.source2.layout
    /\ \/ functionStack # <<>>
       \/ IsConstant(result.arg.source1.data) /\ IsConstant(result.arg.source2.data)

\* C13: for two operands of one layout, constant or runtime in any combination,
\* LogicalOperation returns one Boolean scalar that is true iff the relation
\* holds at every logical coordinate of the active region; in particular
\* equality is true iff every coordinate-wise pair is equal.
C13_AndOverCoordinates ==
    LogicalCompleted =>
        /\ result.status = "ok"
        /\ result.value.type = "Boolean"
        /\ result.value.layout = ScalarLayout
        /\ result.value.mem = <<RelationEverywhere(result.arg.op, result.arg.source1,
                                                   result.arg.source2)>>

\* a constant vector compared for equality with a runtime vector that differs
\* from it in one element only: the result is false
C13_Witness ==
    /\ LogicalCompleted
    /\ result.arg.op = "equality"
    /\ IsConstant(result.arg.source1.data)
    /\ ~IsConstant(result.arg.source2.data)
    /\ result.arg.source1.mem = <<1, 2>>
    /\ result.arg.source2.mem = <<1, 1>>
    /\ result.value.mem = <<FALSE>>

\* the last operation was a MoveData that completed
MoveCompleted == result.op = "MoveData" /\ result.status = "ok"

\* at every element of the source's active region, destination holds what source held
HoldsDataOf(destination, source) ==
    LET offsets == LoopOffsets(source.layout)
    IN \A i \in 1..Len(offsets) :
          /\ offsets[i] + 1 <= Len(destination.mem)
          /\ destination.mem[offsets[i] + 1] = source.mem[offsets[i] + 1]

\* C14 as stated: after every MoveData that completes, the same Value given
\* twice included, src is undefined and dst is defined and holds src's data.
C14_MovedIntoDestination ==
    MoveCompleted =>
        /\ ~IsDefined(result.value.source)
        /\ IsDefined(result.value.destination)
        /\ HoldsDataOf(result.value.destination, result.arg.source)

\* C14 amended: src is undefined after every MoveData that completes; dst is
\* defined and holds src's data when src and dst are two Values of one pointer
\* level (which may refer to one storage); one Value given as both is undefined.
C14_MovedBetweenTwoValues ==
    MoveCompleted =>
        /\ ~IsDefined(result.value.source)
        /\ result.arg.aliased => ~IsDefined(result.value.destination)
        /\ (/\ ~result.arg.aliased
            /\ result.arg.source.pointerLevel = result.arg.destination.pointerLevel) =>
               /\ IsDefined(result.value.destination)
               /\ HoldsDataOf(result.value.destination, result.arg.source)

\* a runtime vector moved into another Value that holds the same handle
C14_Witness ==
    /\ MoveCompleted
    /\ ~result.arg.aliased
    /\ result.arg.source.data.kind = "emittable"
    /\ result.arg.source.data = result.arg.destination.data
    /\ result.arg.source.mem = <<2, 1>>
    /\ result.value.destination.mem = <<2, 1>>
    /\ ~IsDefined(result.value.source)

NoCopyEmitted ==
    \A i \in 1..Len(emitted) : emitted[i].instr \notin {"Store", "MemoryCopy"}

\* C19: CopyData and MoveData into a runtime destination fail with TypeMismatch
\* whenever the base types of source and destination differ, whatever the
\* pointer levels, and emit no store or block copy.
C19_TypeMismatchWhateverLevels ==
    (/\ result.op \in {"CopyData", "MoveData"}
     /\ result.arg.destination.data.kind = "emittable"
     /\ IsDefined(result.arg.source)
     /\ result.arg.source.type # result.arg.destination.type) =>
        result.status = "TypeMismatch" /\ NoCopyEmitted


\* the last operation was a Call whose arguments all have elements
CalledNonEmpty ==
    /\ result.op = "Call"
    /\ \A i \in DOMAIN result.arg.args : ~IsEmpty(result.arg.args[i])

\* the argument counts a declaration takes: the number of its parameter types;
\* for an intrinsic, whose declaration is not part of the sources, the counts
\* its lowering accepts
ArgumentCounts(func) ==
    IF func \in GetIntrinsics
    THEN IF func.name \in {"max", "min"} THEN {1, 2} ELSE IF func.name = "pow" THEN {2} ELSE {1}
    ELSE {Len(func.params)}

CountMismatch(func, args) == Len(args) \notin ArgumentCounts(func)

\* the count matches and an argument's base type is not its parameter's
BaseTypeMismatch(func, args) ==
    /\ func \notin GetIntrinsics
    /\ Len(args) = Len(func.params)
    /\ \E i \in DOMAIN args : args[i].type # func.params[i].type

NoCallEmitted == \A i \in DOMAIN emitted : emitted[i].instr # "Call"

\* C15: a Call with non-empty arguments whose count or base types do not match
\* the declaration's parameter types fails with InvalidArgument or TypeMismatch
\* in every dispatch tier, and emits no call instruction
C15_MismatchRejected ==
    (/\ CalledNonEmpty
     /\ \/ CountMismatch(result.arg.func, result.arg.args)
        \/ BaseTypeMismatch(result.arg.func, result.arg.args))
    => /\ result.status \in {"InvalidArgument", "TypeMismatch"}
       /\ NoCallEmitted

\* C15 (amended): while a function is being emitted, a mismatching Call emits no
\* call instruction and fails with the error of its tier: InvalidArgument in the
\* user-defined tier; SizeMismatch for the count and TypeMismatch for a base type
\* in the external tier; InvalidSize for the count in the intrinsic tier when
\* not every argument is constant
C15_MismatchRejectedPerTier ==
    LET func == result.arg.func
        args == result.arg.args
    IN (/\ CalledNonEmpty
        /\ functionStack # <<>>
        /\ \/ CountMismatch(func, args)
           \/ BaseTypeMismatch(func, args)
        /\ result.arg.tier = "intrinsic" => \E i \in DOMAIN args : ~IsConstant(args[i].data))
       => /\ NoCallEmitted
          /\ result.status =
                CASE result.arg.tier = "defined" -> "InvalidArgument"
                  [] result.arg.tier = "external" ->
                        IF CountMismatch(func, args) THEN "SizeMismatch" ELSE "TypeMismatch"
                  [] result.arg.tier = "intrinsic" -> "InvalidSize"

\* a call with one argument too few was rejected by the external tier, and one
\* with an argument of another base type by the user-defined tier
C15_Witness ==
    /\ CalledNonEmpty
    /\ functionStack # <<>>
    /\ \/ /\ result.arg.tier = "external"
          /\ CountMismatch(result.arg.func, result.arg.args)
          /\ result.status = "SizeMismatch"
       \/ /\ result.arg.tier = "defined"
          /\ BaseTypeMismatch(result.arg.func, result.arg.args)
          /\ result.status = "InvalidArgument"

\* C16: a Call with no empty argument goes to the intrinsic lowering iff the
\* declaration is a built-in intrinsic, otherwise to the cached callable iff the
\* declaration is in the defined-function map at the time of the call, otherwise
\* to the external call; one tier only handles it
C16_DispatchInOrder ==
    CalledNonEmpty
    => result.arg.tier =
          IF result.arg.func \in GetIntrinsics
          THEN "intrinsic"
          ELSE IF result.arg.func \in definedFunctions
          THEN "defined"
          ELSE "external"

\* a declaration was called through its cached callable, and the call was emitted
C16_Witness ==
    /\ CalledNonEmpty
    /\ result.arg.func = DefinedDecl
    /\ result.arg.tier = "defined"
    /\ result.status = "ok"
    /\ ~NoCallEmitted


\* C17: DebugDump completes without raising an error for every Value (undefined,
\* constant whether promoted or not, runtime) and in every state of the context,
\* outside any function scope too
C17_DebugDumpNeverFails == result.op = "DebugDump" => result.status = "ok"

\* the elements of a Value at the logical coordinates of its active region
ActiveElements(value) ==
    {value.mem[GetLogicalEntryOffset(value.layout, c) + 1] : c \in ActiveCoordinates(value.layout)}

\* the greatest (least) of a set of elements
Extremum(intrinsic, elements) ==
    CHOOSE x \in elements :
        \A y \in elements : IF intrinsic = "max" THEN x >= y ELSE x <= y

\* C18: for a non-boolean runtime input the single-argument max (min) intrinsic
\* yields a scalar that equals the greatest (least) element of the input's active
\* region; the padding has no influence on it
C18_ExtremumOfActiveRegion ==
    (/\ CalledNonEmpty
     /\ result.arg.func.name \in {"max", "min"}
     /\ Len(result.arg.args) = 1
     /\ result.arg.args[1].data.kind = "emittable"
     /\ result.arg.args[1].type # "Boolean"
     /\ result.status = "ok")
    => /\ result.value.layout = ScalarLayout
       /\ result.value.mem[1] = Extremum(result.arg.func.name, ActiveElements(result.arg.args[1]))


NoComparisonEmitted == \A i \in DOMAIN emitted : emitted[i].instr # "Comparison"

\* C21: LogicalOperation on operands of equal layouts that are not both constant
\* requires equal base types: operands of different base types are rejected
\* with a type mismatch and no comparison is emitted
C21_BaseTypesRequired ==
    (/\ result.op = "LogicalOperation"
     /\ IsDefined(result.arg.source1)
     /\ IsDefined(result.arg.source2)
     /\ result.arg.source1.layout = result.arg.source2.layout
     /\ ~(IsConstant(result.arg.source1.data) /\ IsConstant(result.arg.source2.data))
     /\ result.arg.source1.type # result.arg.source2.type)
    => /\ result.status = "TypeMismatch"
       /\ NoComparisonEmitted


\* the last operation was a CopyData that completed, from a runtime source of a
\* non-contiguous layout into another runtime Value
CopiedPerCoordinate ==
    /\ result.op = "CopyData"
    /\ result.status = "ok"
    /\ result.arg.source.data.kind = "emittable"
    /\ result.arg.destination.data.kind = "emittable"
    /\ result.arg.source.data # result.arg.destination.data
    /\ ~IsContiguous(result.arg.source.layout)

\* C22: a copy from a runtime source of a non-contiguous layout into a runtime
\* destination emits one load and store per logical coordinate c of the active
\* region, writing dst[dstLayout.offset(c)] := src[srcLayout.offset(c)], each
\* side through its own layout's offsets, also when the two layouts differ
C22_OwnOffsetsEachSide ==
    CopiedPerCoordinate =>
        LET source == result.arg.source
            destination == result.arg.destination
            coordinates == ActiveCoordinates(source.layout)
        IN /\ Len(emitted) = Cardinality(coordinates)
           /\ \A i \in DOMAIN emitted : emitted[i].instr = "Store" /\ emitted[i].op = "load"
           /\ \A c \in coordinates :
                 result.value.destination.mem[GetLogicalEntryOffset(destination.layout, c) + 1]
                    = source.mem[GetLogicalEntryOffset(source.layout, c) + 1]


\* a promotion resolves to storage of the scope it was made in: a variable of
\* the function being emitted, or a module global outside any function
C23_State ==
    PromotedAConstant =>
        LET real == storage[result.value.base]
        IN /\ RecordsOf(Last(promotedConstantStack), GetConstantData(result.arg.value)) # {}
           /\ IF functionStack = <<>>
              THEN real.kind = "global"
              ELSE real.kind = "variable" /\ real.name = GetFunctionName

C23_Step ==
    /\ Len(functionStack') > Len(functionStack) =>
          \A b \in Buffers : RecordsOf(Last(promotedConstantStack'), b) = {}
    /\ Len(functionStack') < Len(functionStack) =>
          promotedConstantStack' = Front(promotedConstantStack)
    /\ Len(functionStack') = Len(functionStack) =>
          Front(promotedConstantStack') = Front(promotedConstantStack)

\* C23: promotion is scoped to the current function. A buffer promoted in an
\* enclosing scope is not treated as promoted in a function scope entered
\* afterwards: promoting it there makes storage of that function and a record in
\* the inner scope only. The records made in a function scope are discarded when
\* it exits, and the enclosing scope's records are in effect again, unchanged.
C23_PromotionScoped == [](C23_State) /\ [][C23_Step]_vars

\* a buffer promoted at module level and promoted again inside a function: two
\* records, one per scope, for two storages
C23_Witness ==
    /\ PromotedAConstant
    /\ Len(promotedConstantStack) = 2
    /\ \E i \in RecordsOf(promotedConstantStack[1], GetConstantData(result.arg.value)) :
       \E j \in RecordsOf(promotedConstantStack[2], GetConstantData(result.arg.value)) :
          /\ promotedConstantStack[1][i].realValue # promotedConstantStack[2][j].realValue
          /\ result.value.base = promotedConstantStack[2][j].realValue


\* C24: outside any function scope promoting a constant Value succeeds: the
\* first promotion of a buffer makes a module global and records it, every later
\* EnsureEmittable of the buffer, still outside any function, succeeds and
\* resolves to that global; no step reads the top of the empty function stack
\* (the read shows as the outcome "crash")
C24_ModuleScopePromotion ==
    (/\ result.op = "EnsureEmittable"
     /\ IsConstant(result.arg.value)
     /\ functionStack = <<>>)
    => /\ result.status = "ok"
       /\ storage[result.value.base].kind = "global"
       /\ \E i \in RecordsOf(promotedConstantStack[1], GetConstantData(result.arg.value)) :
             promotedConstantStack[1][i].realValue = result.value.base


\* the last operation was an external call with as many non-empty arguments as
\* the declaration has parameters, made while a function is being emitted
CalledExternal ==
    /\ CalledNonEmpty
    /\ result.arg.tier = "external"
    /\ Len(result.arg.args) = Len(result.arg.func.params)
    /\ functionStack # <<>>

\* the call instructions among the emitted instructions
CallsEmitted == {i \in DOMAIN emitted : emitted[i].instr = "Call"}

\* C25: in an external call with matching argument count, an argument of the
\* parameter's base type is passed unchanged when its pointer level is the
\* parameter's and as its element 0 when its pointer level is one higher; any
\* other pointer level, and any other base type, fails with TypeMismatch. A
\* return of pointer level 0 is stored into fresh scalar storage, a pointer
\* return is bound to the call's value, a void declaration returns no Value.
C25_ExternalArgumentsAndReturn ==
    CalledExternal =>
        LET func == result.arg.func
            args == result.arg.args
            level(i) == args[i].pointerLevel - func.params[i].pointerLevel
            typed(i) == args[i].type = func.params[i].type
        IN IF \E i \in DOMAIN args : ~typed(i) \/ level(i) \notin {0, 1}
           THEN result.status = "TypeMismatch" /\ CallsEmitted = {}
           ELSE /\ result.status = "ok"
                /\ Cardinality(CallsEmitted) = 1
                /\ \A c \in CallsEmitted :
                      /\ emitted[c].op = func.name
                      /\ Len(emitted[c].args) = Len(args)
                      /\ \A i \in DOMAIN args :
                            /\ emitted[c].args[i].pass
                                  = IF level(i) = 0 THEN "unchanged" ELSE "ValueAt"
                            /\ level(i) = 1 => emitted[c].args[i].offset = 0
                            /\ ~IsConstant(args[i].data) => emitted[c].args[i].data = args[i].data
                            /\ emitted[c].args[i].data.kind = "emittable"
                /\ IF func.ret = Void
                   THEN result.value = NoValue
                   ELSE IF func.ret.pointerLevel = 0
                   THEN /\ result.value.type = func.ret.type
                        /\ result.value.layout = ScalarLayout
                        /\ result.value.data = EmittableValue(Len(storage), 0)
                        /\ storage[Len(storage)].kind = "variable"
                        /\ \A i \in DOMAIN args : args[i].data # result.value.data
                        /\ emitted[Len(emitted)].instr = "SetValueAt"
                   ELSE /\ result.value.type = func.ret.type
                        /\ result.value.pointerLevel = func.ret.pointerLevel
                        /\ result.value.data = RegisterData

\* a call that passed element 0 of a promoted constant and bound a pointer return
C25_Witness ==
    /\ CalledExternal
    /\ result.status = "ok"
    /\ result.arg.func.ret.pointerLevel = 1
    /\ IsConstant(result.arg.args[1].data)
    /\ \E c \in CallsEmitted : emitted[c].args[1].pass = "ValueAt"


\* the last operation was a Cast of a runtime Value made while a function is
\* being emitted
CastRuntime ==
    /\ result.op = "Cast"
    /\ result.arg.value.data.kind = "emittable"
    /\ functionStack # <<>>

\* the layout of the destination of a Cast
CastLayout(value) == IF value.layout = NoLayout THEN ScalarLayout ELSE value.layout

\* the physical offsets the emitted conversions were made at
ConversionsEmitted == {i \in DOMAIN emitted : emitted[i].instr = "CastValue"}

C27_State ==
    /\ (result.op = "IsFunctionDefined" /\ result.arg.decl \notin GetIntrinsics)
       => result.value.defined = (result.arg.decl \in definedFunctions)
    /\ (CalledNonEmpty /\ result.arg.func \notin definedFunctions)
       => result.arg.tier # "defined"

\* the map starts empty and changes only when a CreateFunction returns
C27_Step ==
    /\ definedFunctions' # definedFunctions
       => /\ result'.op = "CreateFunction"
          /\ result'.status = "ok"
          /\ callStack = Append(callStack', result'.arg.decl)
          /\ definedFunctions' = definedFunctions \cup {result'.arg.decl}
    /\ (Len(callStack') < Len(callStack) /\ result'.status = "ok")
       => Last(callStack) \in definedFunctions'
    /\ (Len(callStack') < Len(callStack) /\ result'.status = "exception")
       => definedFunctions' = definedFunctions
    /\ Len(callStack') > Len(callStack)
       => /\ Last(callStack') \notin definedFunctions'
          /\ definedFunctions' = definedFunctions

\* C27: for a non-intrinsic declaration, IsFunctionDefined(decl) is true iff an
\* earlier CreateFunction(decl) has returned successfully. The declaration is
\* not in the map when its body starts and enters the map only when a
\* CreateFunction of it returns, so a Call made from inside its body before
\* that is not dispatched to the user-defined tier; a CreateFunction whose body
\* failed leaves the map unchanged.
C27_DefinedIffReturned == [](C27_State) /\ [][C27_Step]_vars /\ (definedFunctions = {})

\* a Call to the declaration from inside its own body went to the external tier
C27_Witness ==
    /\ CalledNonEmpty
    /\ result.arg.func = DefinedDecl
    /\ callStack = <<DefinedDecl>>
    /\ DefinedDecl \notin definedFunctions
    /\ result.arg.tier = "external"
    /\ result.status = "ok"


\* a BinaryOperation that returned without being folded by the interpreter
BinaryEmitted ==
    /\ result.op = "BinaryOperation"
    /\ result.status = "ok"
    /\ ~(IsDefined(result.arg.destination)
         /\ BothConstant(result.arg.destination, result.arg.source))

\* C29: whenever BinaryOperation is not constant-folded, the Value it returns is
\* a runtime-materialized handle to the storage the emitted per-coordinate
\* operations wrote to: the destination passed in when it was runtime, and the
\* storage its constant data was promoted to when it was constant.
C29_ReturnsWrittenStorage ==
    BinaryEmitted
    => /\ IsDefined(result.value)
       /\ ~IsConstant(result.value.data)
       /\ (IsDefined(result.arg.destination) /\ ~IsConstant(result.arg.destination.data))
          => result.value.data = result.arg.destination.data
       /\ (IsDefined(result.arg.destination) /\ IsConstant(result.arg.destination.data))
          => \E o \in EnsureEmittable(result.arg.destination.data) :
                o.status = "ok" /\ result.value.data = o.value


\* an intrinsic call made inside a function that emitted its instructions
IntrinsicEmitted ==
    /\ result.op = "Call"
    /\ result.arg.tier = "intrinsic"
    /\ result.status = "ok"
    /\ \E i \in DOMAIN result.arg.args : ~IsConstant(result.arg.args[i].data)
    /\ functionStack # <<>>

\* C28: every intrinsic call that is not constant-folded emits its instructions
\* through the function emitter on top of the function-emission stack at the
\* time of the call, whatever function was current in earlier intrinsic calls.
C28_EmitsThroughCurrentEmitter == IntrinsicEmitted => intrinsicEmitter = TopEmitter


\* C30: the mapping between type descriptions and backend types round-trips:
\* for every base type and every pointer level up to MaxPointerLevel, GetType of
\* storage of the backend type made for (t, p) is (t, p).
C30_TypeRoundTrip ==
    (result.op = "GetType" /\ result.arg.emittable.allocatedAs.type \in ValueTypes)
    => /\ result.status = "ok"
       /\ result.value = result.arg.emittable.allocatedAs

====
